---- MODULE Spec2Model ----
(***************************************************************************)
(* Resource-name audit: the Phase 1 masking cascade and its metrics        *)
(* (src/src/Audit/AuditPhaseOne.py) and the Phase 2 protect set and        *)
(* glued-name coverage sweep (src/src/Audit/AuditPhaseTwo.py).             *)
(*                                                                         *)
(* A string is a sequence of characters, a character a one-letter string.  *)
(* Offsets are Python's: 0-based, a span [start, end) holds the characters *)
(* s[start+1] .. s[end] of the TLA+ sequence.                              *)
(***************************************************************************)
EXTENDS Integers, Sequences, FiniteSets, TLC

VARIABLES
    \* ---- term catalog (both phases) ----
    tech_terms,          \* list of TECH terms, in the order the alternation joins them
    env_terms,           \* list of ENV terms
    reg_terms,           \* list of REG terms
    \* ---- Phase 1: _apply_masks_to_row on one row ----
    p1_pc,               \* position inside _apply_masks_to_row
    row_name,            \* the row's resource name: a string, or NotAString
    original_name,
    masked_name,
    mask_hits,           \* class -> number of replacements
    chars_removed_map,   \* class -> characters of matched text
    pass_input,          \* class -> the string the class's pass scanned
    pass_spans,          \* class -> the spans the class's pass replaced, in its input
    rec,                 \* the output columns written to the row
    applications,        \* how many times the cascade has been started
    first_masked,        \* masked_name of the first application
    \* ---- Phase 2: _analyze_glued_names on one glued row ----
    g_pc,                \* position inside the loop body
    AUDIT_GLUED_COVERAGE_NO_P_HITS,   \* the setting of AuditConfig
    p_chunks,            \* the protect-set chunks, longest first
    glued_name,          \* name: the row's name after NFKC
    covered,             \* one flag per character of the name
    protected_hits,
    coverage_sequence,
    glued_explained,
    coverage_fail_offset,
    sweep_i,             \* i of the while loop
    glued_masked_string,
    \* ---- Phase 2: AuditPhaseTwo.run ----
    run_pc,              \* position inside run
    phase_one_df,        \* the rows Phase 1 returned
    protect_set_freq_df,
    protect_set_cost_df,
    combined_df,         \* protect_set_combined.*.p2.csv, or NoFile
    glued_results_df,
    summary_df,          \* corpus_readiness_summary.*.p2.csv, or NoFile
    suggested_entities,  \* suggested_entities.*.p2.yml, or NoFile
    raised,              \* the exception that left run, or "None"
    \* ---- the display form of one span (lines 98-107 of AuditPhaseTwo.py) ----
    d_pc,
    d_case_variants,     \* data['case_variants']
    d_display_form,
    \* ---- EntityNameSimilarity.find_similar_groups ----
    c_pc,
    entity_names,        \* self.names
    sim_matrix,          \* pair of names -> similarity in thousandths
    topk,                \* node -> the neighbours kept for linking
    kept_links,          \* what _find_reciprocal_topk_links returns
    groups,              \* what _create_groups_from_links returns
    \* ---- Utils.dateparser.parse_date ----
    t_pc,
    date_str,            \* the argument
    date_result,         \* what the call returned or raised
    \* ---- EntityMerger.merge_suggestions ----
    m_pc,
    p2_suggestions,      \* the entries of the Phase 2 file, in order
    p3_suggestions,      \* the entries of the Phase 3 file, in order
    initial_merge_dict,  \* the merged entities, in order of insertion
    final_groups,
    distinct_entities

p1vars == <<p1_pc, row_name, original_name, masked_name, mask_hits,
            chars_removed_map, pass_input, pass_spans, rec, applications,
            first_masked>>

gvars == <<g_pc, AUDIT_GLUED_COVERAGE_NO_P_HITS, p_chunks, glued_name, covered,
           protected_hits, coverage_sequence, glued_explained, coverage_fail_offset,
           sweep_i, glued_masked_string>>

rvars == <<run_pc, phase_one_df, protect_set_freq_df, protect_set_cost_df,
           combined_df, glued_results_df, summary_df, suggested_entities, raised>>

dvars == <<d_pc, d_case_variants, d_display_form>>

cvars == <<c_pc, entity_names, sim_matrix, topk, kept_links, groups>>

tvars == <<t_pc, date_str, date_result>>

mvars == <<m_pc, p2_suggestions, p3_suggestions, initial_merge_dict, final_groups,
           distinct_entities>>

xvars == <<dvars, cvars, tvars, mvars>>

vars == <<tech_terms, env_terms, reg_terms, p1_pc, row_name, original_name,
          masked_name, mask_hits, chars_removed_map, pass_input, pass_spans,
          rec, applications, first_masked, g_pc, AUDIT_GLUED_COVERAGE_NO_P_HITS,
          p_chunks, glued_name, covered, protected_hits, coverage_sequence,
          glued_explained, coverage_fail_offset, sweep_i, glued_masked_string,
          run_pc, phase_one_df, protect_set_freq_df, protect_set_cost_df,
          combined_df, glued_results_df, summary_df, suggested_entities, raised,
          d_pc, d_case_variants, d_display_form, c_pc, entity_names, sim_matrix,
          topk, kept_links, groups, t_pc, date_str, date_result, m_pc,
          p2_suggestions, p3_suggestions, initial_merge_dict, final_groups,
          distinct_entities>>

(***************************************************************************)
(* Characters                                                              *)
(***************************************************************************)
Digits == {"0", "1", "2", "3", "4", "5", "6", "7", "8", "9"}

LowerSeq == <<"a", "b", "c", "d", "e", "f", "g", "h", "i", "j", "k", "l", "m",
              "n", "o", "p", "q", "r", "s", "t", "u", "v", "w", "x", "y", "z">>

UpperSeq == <<"A", "B", "C", "D", "E", "F", "G", "H", "I", "J", "K", "L", "M",
              "N", "O", "P", "Q", "R", "S", "T", "U", "V", "W", "X", "Y", "Z">>

LowerLetters == {LowerSeq[k] : k \in 1..26}

UpperLetters == {UpperSeq[k] : k \in 1..26}

HexLetters == {"a", "b", "c", "d", "e", "f"}

\* U+27C2, the character that opens and closes every placeholder
Perp == "U+27C2"

\* str.lower() on one character
ToLower(c) ==
    IF c \in UpperLetters
    THEN LowerSeq[CHOOSE k \in 1..26 : UpperSeq[k] = c]
    ELSE c

\* equality of two characters under re.IGNORECASE
CaseEq(a, b) == ToLower(a) = ToLower(b)

\* the character class [A-Za-z0-9]
IsAlnum(c) == c \in Digits \cup LowerLetters \cup UpperLetters

\* the character class [A-Za-z]
IsAlpha(c) == c \in LowerLetters \cup UpperLetters

\* \d
IsDigit(c) == c \in Digits

\* [a-f0-9] under re.IGNORECASE
IsHexChar(c) == ToLower(c) \in Digits \cup HexLetters

\* [a-f] under re.IGNORECASE
IsHexLetter(c) == ToLower(c) \in HexLetters

\* str.isspace()
IsSpace(c) == c = " "

\* the character class [-_.:/] of DELIMITERS_REGEX_PATTERN
IsDelimiter(c) == c \in {"-", "_", ".", ":", "/"}

\* s[start:end]
Slice(s, start, end) == [k \in 1..(end - start) |-> s[start + k]]

Max(a, b) == IF a >= b THEN a ELSE b

RECURSIVE SumSeq(_)
SumSeq(q) == IF q = <<>> THEN 0 ELSE Head(q) + SumSeq(Tail(q))

(***************************************************************************)
(* Placeholders (AuditConfig.PLACEHOLDERS), in the dict's order            *)
(***************************************************************************)
PlaceholderKeys == <<"GUID", "TECH", "ENV", "REG", "NUM", "HEX">>

Classes == {PlaceholderKeys[k] : k \in 1..Len(PlaceholderKeys)}

\* the text between the two U+27C2 of a placeholder
Keyword(cls) ==
    CASE cls = "GUID" -> <<"G", "U", "I", "D">>
      [] cls = "TECH" -> <<"T", "E", "C", "H">>
      [] cls = "ENV"  -> <<"E", "N", "V">>
      [] cls = "REG"  -> <<"R", "E", "G">>
      [] cls = "NUM"  -> <<"N", "U", "M">>
      [] cls = "HEX"  -> <<"H", "E", "X">>

PLACEHOLDERS(cls) == <<Perp>> \o Keyword(cls) \o <<Perp>>

(***************************************************************************)
(* Look-arounds of the Phase 1 patterns                                    *)
(***************************************************************************)
\* (?:(?<=^)|(?<=[^A-Za-z0-9])) and (?<![A-Za-z0-9]) at offset i of s
BoundaryBefore(s, i) == i = 0 \/ ~IsAlnum(s[i])

\* (?:(?=$)|(?=[^A-Za-z0-9])) at offset e of s
BoundaryAfter(s, e) == e = Len(s) \/ ~IsAlnum(s[e + 1])

\* (?=$|[^A-Za-z0-9]|\d) at offset e of s: TECH_TERM_REGEX_FORMAT
TechLookahead(s, e) == e = Len(s) \/ ~IsAlnum(s[e + 1]) \/ IsDigit(s[e + 1])

\* the escaped literal t matches s at offset i, ignoring case
LitAt(t, s, i) ==
    /\ i + Len(t) <= Len(s)
    /\ \A k \in 1..Len(t) : CaseEq(s[i + k], t[k])

\* end of the longest run of characters of s from offset i on that are hex
RECURSIVE HexRunEnd(_, _)
HexRunEnd(s, i) ==
    IF i < Len(s) /\ IsHexChar(s[i + 1]) THEN HexRunEnd(s, i + 1) ELSE i

\* end of the longest run of digits of s from offset i on
RECURSIVE DigitRunEnd(_, _)
DigitRunEnd(s, i) ==
    IF i < Len(s) /\ IsDigit(s[i + 1]) THEN DigitRunEnd(s, i + 1) ELSE i

\* s[i:i+n] is n hex characters
HexBlock(s, i, n) ==
    /\ i + n <= Len(s)
    /\ \A k \in 1..n : IsHexChar(s[i + k])

\* GUID_REGEX at offset i: the 8-4-4-4-12 form is tried first, then 32 hex
\* characters; -1 when neither fits.  No look-around.
GuidBodyEnds(s, i) ==
    LET dashed == /\ i + 36 <= Len(s)
                  /\ HexBlock(s, i, 8)
                  /\ s[i + 9] = "-"  /\ HexBlock(s, i + 9, 4)
                  /\ s[i + 14] = "-" /\ HexBlock(s, i + 14, 4)
                  /\ s[i + 19] = "-" /\ HexBlock(s, i + 19, 4)
                  /\ s[i + 24] = "-" /\ HexBlock(s, i + 24, 12)
        bare   == HexBlock(s, i, 32)
    IN  (IF dashed THEN <<i + 36>> ELSE <<>>) \o (IF bare THEN <<i + 32>> ELSE <<>>)

\* the ends of the matches of (?:t1|t2|...) at offset i, in the order the
\* alternation tries them; the alternation of no term is the empty pattern
AltEnds(terms, s, i) ==
    IF terms = <<>> THEN <<i>>
    ELSE LET hit == SelectSeq(terms, LAMBDA t : LitAt(t, s, i))
         IN  [k \in 1..Len(hit) |-> i + Len(hit[k])]

\* -1, or the first of the ends
FirstEnd(ends) == IF ends = <<>> THEN -1 ELSE Head(ends)

(***************************************************************************)
(* The six compiled patterns of Phase 1, as "end of the match that starts  *)
(* at offset i of s, or -1"                                                *)
(***************************************************************************)
\* AuditPhaseOne._compile_guid_regex
P1GuidEnd(s, i) ==
    IF ~BoundaryBefore(s, i) THEN -1
    ELSE FirstEnd(SelectSeq(GuidBodyEnds(s, i), LAMBDA e : BoundaryAfter(s, e)))

\* HEX_ID_REGEX_PATTERN, (?:[a-f0-9]*[a-f]){2,}[a-f0-9]*|[a-f0-9]{7,}, matches
\* s[i:e] iff it is all hex and holds two hex letters or seven characters
HexIdBody(s, i, e) ==
    /\ e > i
    /\ \A k \in (i + 1)..e : IsHexChar(s[k])
    /\ \/ Cardinality({k \in (i + 1)..e : IsHexLetter(s[k])}) >= 2
       \/ e - i >= 7

\* AuditPhaseOne._compile_hex_regex: the look-ahead rejects every end that is
\* followed by a hex character, so only the end of the hex run can match
P1HexEnd(s, i) ==
    LET e == HexRunEnd(s, i)
    IN  IF BoundaryBefore(s, i) /\ HexIdBody(s, i, e) /\ BoundaryAfter(s, e)
        THEN e ELSE -1

\* the TECH pattern with the look-ahead of TERM_REGEX_FORMAT: no digit may follow
P1TechEndNoDigit(terms, s, i) ==
    IF terms = <<>> \/ ~BoundaryBefore(s, i) THEN -1
    ELSE FirstEnd(SelectSeq(AltEnds(terms, s, i), LAMBDA e : BoundaryAfter(s, e)))

\* AuditPhaseOne._compile_tech_regex
P1TechEnd(terms, s, i) ==
    IF terms = <<>> THEN -1                     \* re.compile("a^")
    ELSE IF ~BoundaryBefore(s, i) THEN -1
    ELSE FirstEnd(SelectSeq(AltEnds(terms, s, i), LAMBDA e : TechLookahead(s, e)))

\* AuditPhaseOne._compile_term_regex (ENV and REG)
P1TermEnd(terms, s, i) ==
    IF terms = <<>> THEN -1                     \* re.compile("a^")
    ELSE IF ~BoundaryBefore(s, i) THEN -1
    ELSE FirstEnd(SelectSeq(AltEnds(terms, s, i), LAMBDA e : BoundaryAfter(s, e)))

\* AuditPhaseOne._compile_numeric_regex: \d+ gives back digits until the
\* look-ahead holds, which only the end of the digit run can satisfy
P1NumEnd(s, i) ==
    LET e == DigitRunEnd(s, i)
    IN  IF BoundaryBefore(s, i) /\ e > i /\ BoundaryAfter(s, e) THEN e ELSE -1

\* the pattern of class cls; cat is the term catalog [TECH, ENV, REG]
P1MatchEnd(cls, cat, s, i) ==
    CASE cls = "GUID" -> P1GuidEnd(s, i)
      [] cls = "HEX"  -> P1HexEnd(s, i)
      [] cls = "TECH" -> P1TechEnd(cat.TECH, s, i)
      [] cls = "ENV"  -> P1TermEnd(cat.ENV, s, i)
      [] cls = "REG"  -> P1TermEnd(cat.REG, s, i)
      [] cls = "NUM"  -> P1NumEnd(s, i)

(***************************************************************************)
(* pattern.sub(repl, s): the non-overlapping matches from left to right,   *)
(* each replaced by the placeholder; repl counts them                      *)
(***************************************************************************)
\* the spans <<start, end>> replaced when scanning s from offset i on
RECURSIVE SubSpans(_, _, _, _)
SubSpans(cls, cat, s, i) ==
    IF i > Len(s) THEN <<>>
    ELSE LET e == P1MatchEnd(cls, cat, s, i)
         IN  IF e = -1 THEN SubSpans(cls, cat, s, i + 1)
             ELSE IF e = i THEN <<(<<i, e>>)>> \o SubSpans(cls, cat, s, i + 1)
             ELSE <<(<<i, e>>)>> \o SubSpans(cls, cat, s, e)

\* s from offset i on, with the spans replaced by ph
RECURSIVE Rebuild(_, _, _, _)
Rebuild(s, spans, ph, i) ==
    IF spans = <<>> THEN Slice(s, i, Len(s))
    ELSE Slice(s, i, Head(spans)[1]) \o ph
         \o Rebuild(s, Tail(spans), ph, Head(spans)[2])

\* one pass of the cascade over s: the new string and what repl counted
SubPass(cls, cat, s) ==
    LET spans == SubSpans(cls, cat, s, 0)
    IN  [out   |-> Rebuild(s, spans, PLACEHOLDERS(cls), 0),
         spans |-> spans,
         hits  |-> Len(spans),
         chars |-> SumSeq([k \in 1..Len(spans) |-> spans[k][2] - spans[k][1]])]

(***************************************************************************)
(* Strings                                                                 *)
(***************************************************************************)
\* the characters of the model in code-point order
CodeOrder == <<" ", "-", ".", "/">>
             \o <<"0", "1", "2", "3", "4", "5", "6", "7", "8", "9">>
             \o <<":">> \o UpperSeq \o <<"_">> \o LowerSeq \o <<Perp>>

CodePoint(c) == CHOOSE k \in 1..Len(CodeOrder) : CodeOrder[k] = c

\* a < b in Python's order of str
RECURSIVE StrLess(_, _)
StrLess(a, b) ==
    IF b = <<>> THEN FALSE
    ELSE IF a = <<>> THEN TRUE
    ELSE IF Head(a) = Head(b) THEN StrLess(Tail(a), Tail(b))
    ELSE CodePoint(Head(a)) < CodePoint(Head(b))

\* sorted(S) for a set S of strings
RECURSIVE SortedStrings(_)
SortedStrings(S) ==
    IF S = {} THEN <<>>
    ELSE LET m == CHOOSE x \in S : \A y \in S \ {x} : StrLess(x, y)
         IN  <<m>> \o SortedStrings(S \ {m})

\* str.lower()
Lower(s) == [k \in 1..Len(s) |-> ToLower(s[k])]

\* t in s
IsSubstring(t, s) ==
    \E i \in 0..(Len(s) - Len(t)) : \A k \in 1..Len(t) : s[i + k] = t[k]

\* s.replace(pat, '') from offset i on
RECURSIVE RemoveAll(_, _, _)
RemoveAll(s, pat, i) ==
    IF i >= Len(s) THEN <<>>
    ELSE IF i + Len(pat) <= Len(s) /\ Slice(s, i, i + Len(pat)) = pat
         THEN RemoveAll(s, pat, i + Len(pat))
         ELSE <<s[i + 1]>> \o RemoveAll(s, pat, i + 1)

\* the loop over self.placeholders.values() that strips every placeholder
RECURSIVE StripPlaceholders(_, _)
StripPlaceholders(s, k) ==
    IF k > Len(PlaceholderKeys) THEN s
    ELSE StripPlaceholders(RemoveAll(s, PLACEHOLDERS(PlaceholderKeys[k]), 0), k + 1)

\* re.sub(DELIMITERS_REGEX_PATTERN, '-', s) from offset i on
RECURSIVE CollapseDelimiters(_, _)
CollapseDelimiters(s, i) ==
    IF i >= Len(s) THEN <<>>
    ELSE IF IsDelimiter(s[i + 1])
         THEN IF i > 0 /\ IsDelimiter(s[i]) THEN CollapseDelimiters(s, i + 1)
              ELSE <<"-">> \o CollapseDelimiters(s, i + 1)
         ELSE <<s[i + 1]>> \o CollapseDelimiters(s, i + 1)

\* s.strip('-_')
RECURSIVE StripDashes(_)
StripDashes(s) ==
    IF s = <<>> THEN s
    ELSE IF Head(s) \in {"-", "_"} THEN StripDashes(Tail(s))
    ELSE IF s[Len(s)] \in {"-", "_"} THEN StripDashes(SubSeq(s, 1, Len(s) - 1))
    ELSE s

\* the residual preview of a masked name
ResidualOf(masked) == StripDashes(CollapseDelimiters(StripPlaceholders(masked, 1), 0))

\* end of the longest run of letters of s from offset i on
RECURSIVE AlphaRunEnd(_, _)
AlphaRunEnd(s, i) ==
    IF i < Len(s) /\ IsAlpha(s[i + 1]) THEN AlphaRunEnd(s, i + 1) ELSE i

\* re.findall(POTENTIAL_ENTITY_REGEX_PATTERN, s) from offset i on: the spans
RECURSIVE EntitySpans(_, _)
EntitySpans(s, i) ==
    IF i >= Len(s) THEN <<>>
    ELSE LET e == AlphaRunEnd(s, i)
         IN  IF e - i >= 3 THEN <<(<<i, e>>)>> \o EntitySpans(s, e)
             ELSE EntitySpans(s, Max(e, i + 1))

(***************************************************************************)
(* _calculate_shannon_entropy, in thousandths of a bit                     *)
(***************************************************************************)
\* floor(1000 * log2(k)) for k = 1 .. 48
Log2Milli ==
   <<
      0, 1000, 1584, 2000, 2321, 2584, 2807, 3000, 3169, 3321, 3459, 3584,
      3700, 3807, 3906, 4000, 4087, 4169, 4247, 4321, 4392, 4459, 4523, 4584,
      4643, 4700, 4754, 4807, 4857, 4906, 4954, 5000, 5044, 5087, 5129, 5169,
      5209, 5247, 5285, 5321, 5357, 5392, 5426, 5459, 5491, 5523, 5554, 5584
   >>

ShannonEntropy(text) ==
    IF text = <<>> THEN 0
    ELSE LET length == Len(text)
             chars  == {text[k] : k \in 1..length}
             count(c) == Cardinality({k \in 1..length : text[k] = c})
             term(c)  == count(c) * (Log2Milli[length] - Log2Milli[count(c)])
             RECURSIVE Sum(_)
             Sum(S) == IF S = {} THEN 0
                       ELSE LET c == CHOOSE x \in S : TRUE IN term(c) + Sum(S \ {c})
         IN  Sum(chars) \div length

(***************************************************************************)
(* Inputs of the model                                                     *)
(***************************************************************************)
\* the number of pieces a generated name is built of
MaxPieces == 2

P1Pieces ==
    { <<"s", "q", "l">>, <<"d", "b">>, <<"p", "r", "o", "d">>, <<"e", "u">>,
      <<"7">>, <<"x">>, <<"-">> }

Guid36 ==
    <<"0", "a", "1", "b", "2", "c", "3", "d", "-", "4", "e", "5", "f", "-",
      "6", "0", "7", "1", "-", "8", "2", "9", "3", "-",
      "a", "4", "b", "5", "c", "6", "d", "7", "e", "8", "f", "9">>

Digits32 == [k \in 1..32 |-> "0"]

\* longer names, one per case the short ones cannot build
P1SampleNames ==
    { Guid36,
      Digits32,
      <<"x", "-">> \o Guid36,
      <<"s", "q", "l", "2", "0", "1", "9">>,
      <<"s", "q", "l", "2", "0", "1", "9", "x">>,
      <<"s", "q", "l", "7", "d", "b">>,
      <<"S", "q", "l", "-", "P", "R", "O", "D", "_", "e", "u", ".", "x", "y", "z">>,
      <<"a", "b", "c", "d", "e", "f", "0">> }

\* the names built of at most n pieces
RECURSIVE NamesUpTo(_, _)
NamesUpTo(pieces, n) ==
    IF n = 0 THEN {<<>>}
    ELSE LET shorter == NamesUpTo(pieces, n - 1)
         IN  shorter \cup {a \o b : a \in shorter, b \in pieces}

P1Names == NamesUpTo(P1Pieces, MaxPieces) \cup P1SampleNames

\* a row's resource name: a str, or a value that is no str (None, NaN)
Str(s) == [isstr |-> TRUE, val |-> s]

NotAString == [isstr |-> FALSE, val |-> <<>>]

\* the contents of exclusions.txt, environments.txt and regions.txt
TechChoices ==
    { {}, {<<"s", "q", "l">>}, {<<"s", "q", "l">>, <<"d", "b">>},
      {<<"d", "b">>, <<"h", "e", "x">>} }

EnvChoices ==
    { {}, {<<"p", "r", "o", "d">>}, {<<"p", "r", "o", "d">>, <<"t", "e", "c", "h">>} }

RegChoices == { {}, {<<"e", "u">>} }

\* the lists a set can be enumerated as
Orders(S) ==
    {q \in [1..Cardinality(S) -> S] : \A j, k \in 1..Cardinality(S) : j # k => q[j] # q[k]}

\* sorted(list(S), key=len, reverse=True): the sort is stable, so terms of one
\* length keep the order the set enumerated them in
SortedByLenDesc(S) ==
    {q \in Orders(S) : \A k \in 1..(Len(q) - 1) : Len(q[k]) >= Len(q[k + 1])}

(***************************************************************************)
(* Phase 1: AuditPhaseOne._apply_masks_to_row                              *)
(***************************************************************************)
\* the order of the six sub() calls
CascadeOrder == <<"GUID", "HEX", "TECH", "ENV", "REG", "NUM">>

Catalog == [TECH |-> tech_terms, ENV |-> env_terms, REG |-> reg_terms]

\* the thresholds of AuditConfig
AUDIT_OVERSTRIP_PCT_NUM == 8
AUDIT_OVERSTRIP_PCT_DEN == 10
AUDIT_RESIDUAL_MIN_LEN == 3
AUDIT_ACRONYM_MIN_LEN == 3
AUDIT_ACRONYM_MAX_LEN == 4
AUDIT_HEAVY_SCAFFOLD_PCT_NUM == 5
AUDIT_HEAVY_SCAFFOLD_PCT_DEN == 10
AUDIT_HEAVY_SCAFFOLD_HITS == 3
AUDIT_ENV_CONFLICT_MIN_COUNT == 2

\* how many times the cascade is applied: to a name, then to its masked_name
MaxApplications == 2

\* original_name = row.get(RESOURCE_NAME, ''), '' when it is no str
OriginalNameNoCheck(v) == v

OriginalNameOf(v) == IF v.isstr THEN v ELSE Str(<<>>)

ZeroCounts == [k \in Classes |-> 0]

\* re.findall(r'(t1|t2|...)\d+', s, re.IGNORECASE) from offset i on: group 1 of
\* every match
RECURSIVE TechDigitGroups(_, _, _)
TechDigitGroups(terms, s, i) ==
    IF i > Len(s) THEN <<>>
    ELSE LET ends == SelectSeq(AltEnds(terms, s, i),
                               LAMBDA e : e < Len(s) /\ IsDigit(s[e + 1]))
         IN  IF ends = <<>> THEN TechDigitGroups(terms, s, i + 1)
             ELSE <<Slice(s, i, Head(ends))>>
                  \o TechDigitGroups(terms, s, DigitRunEnd(s, Head(ends)))

\* embedded_env_list of a glued name
EmbeddedEnvList(terms, name) ==
    LET name_lower == Lower(name)
    IN  SortedStrings({terms[k] : k \in {j \in 1..Len(terms) : IsSubstring(terms[j], name_lower)}})

\* embedded_tech_list of a glued name
EmbeddedTechList(terms, name) ==
    LET found == TechDigitGroups(terms, Lower(name), 0)
    IN  SortedStrings({found[k] : k \in 1..Len(found)})

\* is_glued
IsGlued(name) == \A k \in 1..Len(name) : name[k] \notin {"-", "_"}

NoRecord == [written |-> FALSE]

\* the class whose pass follows the pass of CascadeOrder[k]
AfterPass(k) == IF k < Len(CascadeOrder) THEN CascadeOrder[k + 1] ELSE "metrics"

\* lines 157-208: the residual, the metrics, the flags and the embedded lists
RowRecord(name, masked, hits, removed, env, tech) ==
    LET residual      == ResidualOf(masked)
        orig_len      == Len(name)
        removed_chars == SumSeq([k \in 1..Len(PlaceholderKeys) |-> removed[PlaceholderKeys[k]]])
        den           == Max(1, orig_len)
        residual_len  == Len(residual)
        hits_total    == SumSeq([k \in 1..Len(PlaceholderKeys) |-> hits[PlaceholderKeys[k]]])
        alpha_parts   == EntitySpans(residual, 0)
        is_glued      == IsGlued(name)
        embedded_env  == IF is_glued THEN EmbeddedEnvList(env, name) ELSE <<>>
        embedded_tech == IF is_glued THEN EmbeddedTechList(tech, name) ELSE <<>>
    IN  [written               |-> TRUE,
         masked_name           |-> masked,
         residual_preview      |-> residual,
         orig_len              |-> orig_len,
         removed_chars         |-> removed_chars,
         pct_removed           |-> [num |-> removed_chars, den |-> den],
         residual_len          |-> residual_len,
         entropy_orig          |-> ShannonEntropy(name),
         entropy_resid         |-> ShannonEntropy(residual),
         mask_hits_total       |-> hits_total,
         mask_hits             |-> hits,
         overstrip_flag        |->
             \/ removed_chars * AUDIT_OVERSTRIP_PCT_DEN > AUDIT_OVERSTRIP_PCT_NUM * den
             \/ residual_len < AUDIT_RESIDUAL_MIN_LEN,
         acronym_only_residual |->
             /\ alpha_parts # <<>>
             /\ \A k \in 1..Len(alpha_parts) :
                   LET n == alpha_parts[k][2] - alpha_parts[k][1]
                   IN  AUDIT_ACRONYM_MIN_LEN <= n /\ n <= AUDIT_ACRONYM_MAX_LEN,
         heavy_scaffold        |->
             \/ removed_chars * AUDIT_HEAVY_SCAFFOLD_PCT_DEN >= AUDIT_HEAVY_SCAFFOLD_PCT_NUM * den
             \/ hits_total >= AUDIT_HEAVY_SCAFFOLD_HITS,
         is_glued              |-> is_glued,
         embedded_env_list     |-> embedded_env,
         embedded_tech_list    |-> embedded_tech,
         env_conflict          |-> Len(embedded_env) >= AUDIT_ENV_CONFLICT_MIN_COUNT]

\* pd.DataFrame(): no column, no row
EmptyFrame == [columns |-> {}, rows |-> <<>>]

\* a file run has not written
NoFile == [written |-> FALSE]

\* the variables of the display form, the clusterer and parse_date while
\* none of them is called
DIdle ==
    /\ d_pc = "idle"
    /\ d_case_variants = <<>>
    /\ d_display_form = NotAString

CIdle ==
    /\ c_pc = "idle"
    /\ entity_names = <<>>
    /\ sim_matrix = <<>>
    /\ topk = <<>>
    /\ kept_links = <<>>
    /\ groups = <<>>

TIdle ==
    /\ t_pc = "idle"
    /\ date_str = NotAString
    /\ date_result = [kind |-> "pending"]

MIdle ==
    /\ m_pc = "idle"
    /\ p2_suggestions = <<>>
    /\ p3_suggestions = <<>>
    /\ initial_merge_dict = <<>>
    /\ final_groups = <<>>
    /\ distinct_entities = <<>>

XIdle == DIdle /\ CIdle /\ TIdle /\ MIdle

\* the variables of AuditPhaseTwo.run while run is not called
RIdle ==
    /\ run_pc = "idle"
    /\ phase_one_df = EmptyFrame
    /\ protect_set_freq_df = EmptyFrame
    /\ protect_set_cost_df = EmptyFrame
    /\ combined_df = NoFile
    /\ glued_results_df = EmptyFrame
    /\ summary_df = NoFile
    /\ suggested_entities = NoFile
    /\ raised = "None"

\* the Phase 2 variables while Phase 1 runs
GIdle ==
    /\ g_pc = "idle"
    /\ AUDIT_GLUED_COVERAGE_NO_P_HITS = TRUE
    /\ p_chunks = <<>>
    /\ glued_name = <<>>
    /\ covered = <<>>
    /\ protected_hits = <<>>
    /\ coverage_sequence = <<>>
    /\ glued_explained = TRUE
    /\ coverage_fail_offset = -1
    /\ sweep_i = 0
    /\ glued_masked_string = NotAString

P1Init ==
    /\ GIdle
    /\ RIdle
    /\ XIdle
    /\ \E T \in TechChoices : tech_terms \in SortedByLenDesc(T)
    /\ \E E \in EnvChoices : env_terms \in SortedByLenDesc(E)
    /\ \E R \in RegChoices : reg_terms \in SortedByLenDesc(R)
    /\ row_name \in {Str(n) : n \in P1Names} \cup {NotAString}
    /\ p1_pc = "start"
    /\ original_name = <<>>
    /\ masked_name = <<>>
    /\ mask_hits = ZeroCounts
    /\ chars_removed_map = ZeroCounts
    /\ pass_input = [k \in Classes |-> <<>>]
    /\ pass_spans = [k \in Classes |-> <<>>]
    /\ rec = NoRecord
    /\ applications = 0
    /\ first_masked = <<>>

\* lines 133-140; a name that is no str makes guid_rx.sub raise TypeError
P1Start ==
    /\ p1_pc = "start"
    /\ LET name == OriginalNameOf(row_name)
       IN  /\ original_name' = name.val
           /\ masked_name' = name.val
           /\ p1_pc' = IF name.isstr THEN CascadeOrder[1] ELSE "raised"
    /\ mask_hits' = ZeroCounts
    /\ chars_removed_map' = ZeroCounts
    /\ pass_input' = [k \in Classes |-> <<>>]
    /\ pass_spans' = [k \in Classes |-> <<>>]
    /\ rec' = NoRecord
    /\ applications' = applications + 1
    /\ UNCHANGED <<tech_terms, env_terms, reg_terms, row_name, first_masked>>
    /\ UNCHANGED gvars
    /\ UNCHANGED rvars
    /\ UNCHANGED xvars

\* lines 150-155: masked_name = <cls>_rx.sub(get_replacer(cls), masked_name)
P1Pass(k) ==
    /\ p1_pc = CascadeOrder[k]
    /\ LET cls == CascadeOrder[k]
           r   == SubPass(cls, Catalog, masked_name)
       IN  /\ masked_name' = r.out
           /\ mask_hits' = [mask_hits EXCEPT ![cls] = @ + r.hits]
           /\ chars_removed_map' = [chars_removed_map EXCEPT ![cls] = @ + r.chars]
           /\ pass_input' = [pass_input EXCEPT ![cls] = masked_name]
           /\ pass_spans' = [pass_spans EXCEPT ![cls] = r.spans]
    /\ p1_pc' = AfterPass(k)
    /\ UNCHANGED <<tech_terms, env_terms, reg_terms, row_name, original_name, rec,
                   applications, first_masked>>
    /\ UNCHANGED gvars
    /\ UNCHANGED rvars
    /\ UNCHANGED xvars

\* lines 157-208
P1Metrics ==
    /\ p1_pc = "metrics"
    /\ rec' = RowRecord(original_name, masked_name, mask_hits, chars_removed_map,
                        env_terms, tech_terms)
    /\ p1_pc' = "done"
    /\ UNCHANGED <<tech_terms, env_terms, reg_terms, row_name, original_name,
                   masked_name, mask_hits, chars_removed_map, pass_input, pass_spans,
                   applications, first_masked>>
    /\ UNCHANGED gvars
    /\ UNCHANGED rvars
    /\ UNCHANGED xvars

\* the cascade applied again, to a row that carries the masked name
P1Reapply ==
    /\ p1_pc = "done"
    /\ applications < MaxApplications
    /\ row_name' = Str(masked_name)
    /\ first_masked' = masked_name
    /\ p1_pc' = "start"
    /\ UNCHANGED <<tech_terms, env_terms, reg_terms, original_name, masked_name,
                   mask_hits, chars_removed_map, pass_input, pass_spans, rec,
                   applications>>
    /\ UNCHANGED gvars
    /\ UNCHANGED rvars
    /\ UNCHANGED xvars

P1Next ==
    \/ P1Start
    \/ \E k \in 1..Len(CascadeOrder) : P1Pass(k)
    \/ P1Metrics
    \/ P1Reapply

SpecMask == P1Init /\ [][P1Next]_vars

(***************************************************************************)
(* Properties of the masking cascade                                       *)
(***************************************************************************)
\* _apply_masks_to_row has returned for the name the row came with
FirstDone == p1_pc = "done" /\ applications = 1

\* offset i of the input of the pass of cls lies in a span the pass replaced
Replaced(cls, i) ==
    \E k \in 1..Len(pass_spans[cls]) :
        pass_spans[cls][k][1] <= i /\ i < pass_spans[cls][k][2]

\* C4: masking is idempotent: the cascade applied to the masked_name of a
\* first application returns the same string and registers no hit in any class.
C4_MaskingIdempotent ==
    (p1_pc = "done" /\ applications = 2) =>
        /\ masked_name = first_masked
        /\ \A cls \in Classes : mask_hits[cls] = 0

\* the cascade has run a second time, on a masked name that holds a placeholder
C4_Witness ==
    /\ p1_pc = "done"
    /\ applications = 2
    /\ \E k \in 1..Len(first_masked) : first_masked[k] = Perp

\* C5: removed_chars, the sum over the six classes of the lengths of the
\* matched spans, is at most orig_len, so pct_removed = removed_chars /
\* max(1, orig_len) lies in [0, 1].
C5_PctRemovedInUnitInterval ==
    FirstDone =>
        /\ rec.removed_chars =
               SumSeq([k \in 1..Len(CascadeOrder) |-> chars_removed_map[CascadeOrder[k]]])
        /\ rec.removed_chars <= rec.orig_len
        /\ 0 <= rec.pct_removed.num
        /\ rec.pct_removed.num <= rec.pct_removed.den

\* a record whose passes removed characters
C5_Witness == FirstDone /\ rec.written /\ rec.removed_chars > 0

\* the classes whose pattern matches the whole of a non-empty name
WholeNameClasses(name) ==
    {k \in 1..Len(CascadeOrder) :
        name # <<>> /\ P1MatchEnd(CascadeOrder[k], Catalog, name, 0) = Len(name)}

\* C6: the six passes run in the order GUID, HEX, TECH, ENV, REG, NUM, each on
\* the output of the one before; the characters counted over all classes are
\* characters of the name, each counted once; and a name matchable by several
\* classes gives one hit to the class whose pass runs first and none to the
\* others.
C6_FixedOrderFirstClassWins ==
    FirstDone =>
        /\ pass_input[CascadeOrder[1]] = original_name
        /\ \A k \in 2..Len(CascadeOrder) :
               pass_input[CascadeOrder[k]] =
                   SubPass(CascadeOrder[k - 1], Catalog, pass_input[CascadeOrder[k - 1]]).out
        /\ SumSeq([k \in 1..Len(CascadeOrder) |-> chars_removed_map[CascadeOrder[k]]])
               <= Len(original_name)
        /\ LET W == WholeNameClasses(original_name)
           IN  W # {} =>
                 LET first == CHOOSE k \in W : \A j \in W : k <= j
                 IN  \A k \in 1..Len(CascadeOrder) :
                       mask_hits[CascadeOrder[k]] = IF k = first THEN 1 ELSE 0

\* a name that two classes match as a whole has been masked
C6_Witness == FirstDone /\ Cardinality(WholeNameClasses(original_name)) >= 2

\* every span a pass replaced lies between boundaries of the pass's input; a
\* TECH span may instead be followed by a digit
SpansAtBoundaries ==
    \A cls \in Classes : \A k \in 1..Len(pass_spans[cls]) :
        LET s  == pass_input[cls]
            sp == pass_spans[cls][k]
        IN  /\ BoundaryBefore(s, sp[1])
            /\ IF cls = "TECH" THEN TechLookahead(s, sp[2]) ELSE BoundaryAfter(s, sp[2])

\* a TECH term that starts at a boundary and is followed by a digit is replaced
TechBeforeDigitReplaced ==
    LET s == pass_input["TECH"]
    IN  \A k \in 1..Len(tech_terms) : \A i \in 0..Len(s) :
            LET e == i + Len(tech_terms[k])
            IN  (/\ LitAt(tech_terms[k], s, i)
                 /\ BoundaryBefore(s, i)
                 /\ e < Len(s)
                 /\ IsDigit(s[e + 1])) => Replaced("TECH", i)

\* the offsets of the input of the NUM pass where a digit run directly follows
\* a TECH placeholder
DigitsAfterTech ==
    LET s  == pass_input["NUM"]
        ph == PLACEHOLDERS("TECH")
    IN  {i \in Len(ph)..(Len(s) - 1) :
            Slice(s, i - Len(ph), i) = ph /\ IsDigit(s[i + 1])}

SqlName == <<"s", "q", "l", "2", "0", "1", "9">>

\* "sql2019" with TECH = {"sql"} and no other term: one TECH hit, one NUM hit,
\* empty residual
SqlExample ==
    (/\ original_name = SqlName
     /\ tech_terms = <<(<<"s", "q", "l">>)>>
     /\ env_terms = <<>>
     /\ reg_terms = <<>>) =>
        /\ mask_hits["TECH"] = 1
        /\ mask_hits["NUM"] = 1
        /\ rec.residual_preview = <<>>

\* C7 as stated: spans of GUID, HEX, ENV, REG and NUM lie between boundaries,
\* the string edges counting as boundaries; a TECH term followed by a digit is
\* replaced too, and the digit run after it is then masked by the NUM pass.
C7_BoundaryRuleAsStated ==
    FirstDone =>
        /\ SpansAtBoundaries
        /\ TechBeforeDigitReplaced
        /\ \A i \in DigitsAfterTech : Replaced("NUM", i)
        /\ SqlExample

\* C7 as amended: as stated, but the digit run after a TECH hit is masked by
\* the NUM pass when the run itself ends at end-of-string or before a
\* non-alphanumeric character.
C7_BoundaryRule ==
    FirstDone =>
        /\ SpansAtBoundaries
        /\ TechBeforeDigitReplaced
        /\ \A i \in DigitsAfterTech :
               BoundaryAfter(pass_input["NUM"], DigitRunEnd(pass_input["NUM"], i))
                   => Replaced("NUM", i)
        /\ SqlExample

\* "sql2019" has been masked with TECH = {"sql"}
C7_Witness ==
    /\ FirstDone
    /\ original_name = SqlName
    /\ tech_terms = <<(<<"s", "q", "l">>)>>
    /\ env_terms = <<>>
    /\ reg_terms = <<>>
    /\ DigitsAfterTech # {}
    /\ mask_hits["NUM"] = 1

\* C8: a row whose name is missing or no str does not raise and gives the
\* record of the empty string: every length, count, hit and entropy 0, empty
\* masked_name, residual and embedded lists.
C8_MissingNameZeroRecord ==
    (applications = 1 /\ ~row_name.isstr) =>
        /\ p1_pc # "raised"
        /\ p1_pc = "done" =>
             /\ rec.masked_name = <<>>
             /\ rec.residual_preview = <<>>
             /\ rec.orig_len = 0
             /\ rec.removed_chars = 0
             /\ rec.pct_removed.num = 0
             /\ rec.residual_len = 0
             /\ rec.entropy_orig = 0
             /\ rec.entropy_resid = 0
             /\ rec.mask_hits_total = 0
             /\ \A cls \in Classes : rec.mask_hits[cls] = 0
             /\ rec.embedded_env_list = <<>>
             /\ rec.embedded_tech_list = <<>>

\* the row without a name has been processed
C8_Witness == FirstDone /\ ~row_name.isstr /\ rec.written

(***************************************************************************)
(* Phase 2: the class patterns of AuditPhaseTwo, as "end of the match that *)
(* starts at offset i of s, or -1"; pattern.match(name, i) anchors the     *)
(* match at i and the look-behind still reads the character before i      *)
(***************************************************************************)
\* unicodedata.normalize("NFKC", c) for one character: the names of the corpus
\* are ASCII, which NFKC leaves alone; a compatibility character is replaced
NFKCChar(c) ==
    CASE c = "U+FF11" -> <<"1">>            \* FULLWIDTH DIGIT ONE
      [] c = "U+FB01" -> <<"f", "i">>       \* LATIN SMALL LIGATURE FI
      [] OTHER        -> <<c>>

RECURSIVE NFKC(_)
NFKC(s) == IF s = <<>> THEN <<>> ELSE NFKCChar(Head(s)) \o NFKC(Tail(s))

\* AuditPhaseTwo._compile_guid_regex
P2GuidEnd(s, i) ==
    IF ~BoundaryBefore(s, i) THEN -1
    ELSE FirstEnd(SelectSeq(GuidBodyEnds(s, i), LAMBDA e : BoundaryAfter(s, e)))

\* AuditPhaseTwo._compile_tech_regex: (?![A-Za-z0-9])(?=[^A-Za-z]|$) after the term
P2TechEnd(terms, s, i) ==
    IF terms = <<>> THEN -1                     \* re.compile("a^")
    ELSE IF ~BoundaryBefore(s, i) THEN -1
    ELSE FirstEnd(SelectSeq(AltEnds(terms, s, i),
                            LAMBDA e : /\ BoundaryAfter(s, e)
                                       /\ (e = Len(s) \/ ~IsAlpha(s[e + 1]))))

\* AuditPhaseTwo._compile_term_regex (ENV and REG)
P2TermEnd(terms, s, i) ==
    IF terms = <<>> THEN -1                     \* re.compile("a^")
    ELSE IF ~BoundaryBefore(s, i) THEN -1
    ELSE FirstEnd(SelectSeq(AltEnds(terms, s, i), LAMBDA e : BoundaryAfter(s, e)))

\* AuditPhaseTwo._compile_numeric_regex
P2NumEnd(s, i) ==
    LET e == DigitRunEnd(s, i)
    IN  IF BoundaryBefore(s, i) /\ e > i /\ BoundaryAfter(s, e) THEN e ELSE -1

class_precedence == <<"GUID", "TECH", "ENV", "REG", "NUM">>

\* class_regexes[cls].match(name, i)
P2MatchEnd(cls, cat, s, i) ==
    CASE cls = "GUID" -> P2GuidEnd(s, i)
      [] cls = "TECH" -> P2TechEnd(cat.TECH, s, i)
      [] cls = "ENV"  -> P2TermEnd(cat.ENV, s, i)
      [] cls = "REG"  -> P2TermEnd(cat.REG, s, i)
      [] cls = "NUM"  -> P2NumEnd(s, i)

NoMatch == [class |-> "NONE", start |-> -1, end |-> -1]

\* whether a match of length n replaces the best match so far
ReplacesBestOnTie(best, n) == best = NoMatch \/ n >= best.end - best.start

ReplacesBest(best, n) == best = NoMatch \/ n > best.end - best.start

\* the loop "for cls in class_precedence" from the k-th class on
RECURSIVE BestMatchFrom(_, _, _, _, _)
BestMatchFrom(cat, s, i, k, best) ==
    IF k > Len(class_precedence) THEN best
    ELSE LET cls == class_precedence[k]
             e   == P2MatchEnd(cls, cat, s, i)
         IN  IF e # -1 /\ ReplacesBest(best, e - i)
             THEN BestMatchFrom(cat, s, i, k + 1, [class |-> cls, start |-> i, end |-> e])
             ELSE BestMatchFrom(cat, s, i, k + 1, best)

\* best_match and best_cls at offset i
BestMatch(cat, s, i) == BestMatchFrom(cat, s, i, 1, NoMatch)

\* re.finditer(re.escape(chunk), name, re.IGNORECASE) from offset i on
RECURSIVE ChunkOccurrences(_, _, _)
ChunkOccurrences(chunk, s, i) ==
    IF i + Len(chunk) > Len(s) THEN <<>>
    ELSE IF LitAt(chunk, s, i)
         THEN <<(<<i, i + Len(chunk)>>)>> \o ChunkOccurrences(chunk, s, i + Len(chunk))
         ELSE ChunkOccurrences(chunk, s, i + 1)

\* covered with the positions start .. end-1 set
MarkCovered(cov, start, end) ==
    [k \in 1..Len(cov) |-> cov[k] \/ (start < k /\ k <= end)]

\* any(covered[start:end])
AnyCovered(cov, start, end) == \E k \in (start + 1)..end : cov[k]

\* the inner loop of the overlay over the occurrences of one chunk
RECURSIVE OverlayOccurrences(_, _, _)
OverlayOccurrences(st, chunk, occ) ==
    IF occ = <<>> THEN st
    ELSE LET start == Head(occ)[1]
             end   == Head(occ)[2]
         IN  IF ~AnyCovered(st.covered, start, end)
             THEN OverlayOccurrences(
                      [hits    |-> Append(st.hits, [chunk |-> chunk, start |-> start, end |-> end]),
                       covered |-> MarkCovered(st.covered, start, end)],
                      chunk, Tail(occ))
             ELSE OverlayOccurrences(st, chunk, Tail(occ))

\* the loop "for chunk in p_chunks"
RECURSIVE OverlayChunks(_, _, _)
OverlayChunks(st, chunks, s) ==
    IF chunks = <<>> THEN st
    ELSE OverlayChunks(OverlayOccurrences(st, Head(chunks), ChunkOccurrences(Head(chunks), s, 0)),
                       Tail(chunks), s)

\* lines 298-306: protected_hits and covered of a name
Overlay(chunks, s) ==
    OverlayChunks([hits |-> <<>>, covered |-> [k \in 1..Len(s) |-> FALSE]], chunks, s)

\* lines 346-351: the masked rendering of an explained name
RECURSIVE RenderItems(_, _)
RenderItems(temp_name, items) ==
    IF items = <<>> THEN temp_name
    ELSE LET item == Head(items)
             ph   == <<Perp>> \o Keyword(item.class) \o <<Perp>>
         IN  RenderItems(
                 [k \in 1..Len(temp_name) |->
                     IF k = item.start + 1 THEN ph
                     ELSE IF item.start < k /\ k <= item.end THEN <<>>
                     ELSE temp_name[k]],
                 Tail(items))

\* "".join(parts)
RECURSIVE Join(_)
Join(parts) == IF parts = <<>> THEN <<>> ELSE Head(parts) \o Join(Tail(parts))

RenderMasked(s, items) == Join(RenderItems([k \in 1..Len(s) |-> <<s[k]>>], items))

(***************************************************************************)
(* Phase 2: the body of the loop of _analyze_glued_names for one row       *)
(***************************************************************************)
\* glued names: no "-" and no "_"
P2Pieces ==
    { <<"p", "r", "o", "d">>, <<"s", "q", "l">>, <<"e", "u">>, <<"7">>,
      <<".">>, <<" ">>, <<"a", "p", "p">> }

ProdExample ==
    <<"p", "r", "o", "d", "0", "1", "s", "q", "l", "b", "a", "c", "k", "u", "p">>

P2SampleNames ==
    { ProdExample,
      Digits32,
      <<"p", "r", "o", "d", ".", "e", "u">>,
      <<"a", "p", "p", " ", "p", "r", "o", "d">>,
      <<"a", "p", "p", "s", "q", "l", ".", "7">>,
      <<"7", " ", "p", "r", "o", "d", ".", "e", "u">>,
      <<"s", "q", "l", "w", "w", "w", "w">>,
      <<"w", "w", "w", "w">>,
      <<"w", "e", "b", "a", "p", "p">>,
      <<"a", "p", "p", " ", "p", "r", "o", "d", " ", "7">> }

\* the rows of phase_one_df[phase_one_df['is_glued']]
P2Names == {n \in NamesUpTo(P2Pieces, MaxPieces) \cup P2SampleNames : IsGlued(n)}

\* the term sets AuditPhaseTwo loads; the categories may share a term
P2TechChoices ==
    { {}, {<<"s", "q", "l">>}, {<<"s", "q", "l">>, <<"p", "r", "o", "d">>},
      {<<"s", "q", "l">>, <<"w", "e", "b", "a", "p", "p">>} }

P2EnvChoices ==
    { {}, {<<"p", "r", "o", "d">>}, {<<"p", "r", "o", "d">>, <<"7">>},
      {<<"p", "r", "o", "d">>, <<"p", "r", "o", "d", ".", "e", "u">>} }

P2RegChoices == { {}, {<<"e", "u">>, <<"p", "r", "o", "d", ".", "e", "u">>} }

\* the chunk column of the frequency-based protect set, longest first
ChunkChoices ==
    { <<>>, <<(<<"a", "p", "p">>)>>,
      << <<"b", "a", "c", "k", "u", "p">>, <<"a", "p", "p">> >>,
      << <<"s", "q", "l", "w">>, <<"w", "w", "w">> >> }

P1Idle ==
    /\ p1_pc = "idle"
    /\ original_name = <<>>
    /\ masked_name = <<>>
    /\ mask_hits = ZeroCounts
    /\ chars_removed_map = ZeroCounts
    /\ pass_input = [k \in Classes |-> <<>>]
    /\ pass_spans = [k \in Classes |-> <<>>]
    /\ rec = NoRecord
    /\ applications = 0
    /\ first_masked = <<>>

GInit ==
    /\ P1Idle
    /\ RIdle
    /\ XIdle
    /\ \E T \in P2TechChoices : tech_terms \in Orders(T)
    /\ \E E \in P2EnvChoices : env_terms \in Orders(E)
    /\ \E R \in P2RegChoices : reg_terms \in Orders(R)
    /\ row_name \in {Str(n) : n \in P2Names}
    /\ AUDIT_GLUED_COVERAGE_NO_P_HITS \in BOOLEAN
    /\ p_chunks \in ChunkChoices
    /\ g_pc = "overlay"
    /\ glued_name = <<>>
    /\ covered = <<>>
    /\ protected_hits = <<>>
    /\ coverage_sequence = <<>>
    /\ glued_explained = TRUE
    /\ coverage_fail_offset = -1
    /\ sweep_i = 0
    /\ glued_masked_string = NotAString

\* line 312 with the policy flag ignored
SkipsSweepIgnoringPolicy(hits, flag) == FALSE

\* line 312: not protected_hits and not AUDIT_GLUED_COVERAGE_NO_P_HITS
SkipsSweep(hits, flag) == hits = <<>> /\ ~flag

\* lines 296-315: normalise, overlay the protect set, decide whether to sweep
GOverlay ==
    /\ g_pc = "overlay"
    /\ LET nm == NFKC(row_name.val)
           st == Overlay(p_chunks, nm)
       IN  /\ glued_name' = nm
           /\ protected_hits' = st.hits
           /\ covered' = st.covered
           /\ coverage_sequence' = <<>>
           /\ coverage_fail_offset' = -1
           /\ sweep_i' = 0
           /\ IF SkipsSweep(st.hits, AUDIT_GLUED_COVERAGE_NO_P_HITS)
              THEN glued_explained' = FALSE /\ g_pc' = "render"
              ELSE glued_explained' = TRUE /\ g_pc' = "sweep"
    /\ UNCHANGED <<AUDIT_GLUED_COVERAGE_NO_P_HITS, p_chunks, glued_masked_string>>
    /\ UNCHANGED <<tech_terms, env_terms, reg_terms>>
    /\ UNCHANGED p1vars
    /\ UNCHANGED rvars
    /\ UNCHANGED xvars

\* lines 316-341: one iteration of "while i < len(name)", or the loop's exit
GSweepStep ==
    /\ g_pc = "sweep"
    /\ LET cat  == [TECH |-> tech_terms, ENV |-> env_terms, REG |-> reg_terms]
           best == BestMatch(cat, glued_name, sweep_i)
       IN  IF sweep_i >= Len(glued_name)
           THEN /\ g_pc' = "render"
                /\ UNCHANGED <<covered, coverage_sequence, glued_explained,
                               coverage_fail_offset, sweep_i>>
           ELSE IF covered[sweep_i + 1] \/ IsSpace(glued_name[sweep_i + 1])
           THEN /\ sweep_i' = sweep_i + 1
                /\ UNCHANGED <<g_pc, covered, coverage_sequence, glued_explained,
                               coverage_fail_offset>>
           ELSE IF best # NoMatch
           THEN /\ coverage_sequence' = Append(coverage_sequence, best)
                /\ covered' = MarkCovered(covered, best.start, best.end)
                /\ sweep_i' = best.end
                /\ UNCHANGED <<g_pc, glued_explained, coverage_fail_offset>>
           ELSE /\ glued_explained' = FALSE
                /\ coverage_fail_offset' = sweep_i
                /\ g_pc' = "render"
                /\ UNCHANGED <<covered, coverage_sequence, sweep_i>>
    /\ UNCHANGED <<AUDIT_GLUED_COVERAGE_NO_P_HITS, p_chunks, glued_name,
                   protected_hits, glued_masked_string>>
    /\ UNCHANGED <<tech_terms, env_terms, reg_terms>>
    /\ UNCHANGED p1vars
    /\ UNCHANGED rvars
    /\ UNCHANGED xvars

\* lines 343-360: the masked string of an explained name, and the result row
GRender ==
    /\ g_pc = "render"
    /\ glued_masked_string' =
           IF glued_explained THEN Str(RenderMasked(glued_name, coverage_sequence))
           ELSE NotAString
    /\ g_pc' = "done"
    /\ UNCHANGED <<AUDIT_GLUED_COVERAGE_NO_P_HITS, p_chunks, glued_name, covered,
                   protected_hits, coverage_sequence, glued_explained,
                   coverage_fail_offset, sweep_i>>
    /\ UNCHANGED <<tech_terms, env_terms, reg_terms>>
    /\ UNCHANGED p1vars
    /\ UNCHANGED rvars
    /\ UNCHANGED xvars

GNext == GOverlay \/ GSweepStep \/ GRender

SpecGlued == GInit /\ [][GNext]_vars

(***************************************************************************)
(* Properties of the glued-name coverage analysis (SpecGlued)              *)
(***************************************************************************)
GCatalog == [TECH |-> tech_terms, ENV |-> env_terms, REG |-> reg_terms]

\* offset k-1 of the name lies in an accepted protect-set hit or a class segment
InHitOrSegment(k) ==
    \/ \E h \in 1..Len(protected_hits) :
           protected_hits[h].start < k /\ k <= protected_hits[h].end
    \/ \E c \in 1..Len(coverage_sequence) :
           coverage_sequence[c].start < k /\ k <= coverage_sequence[c].end

\* C1: a glued name is explained exactly when it has a protect-set hit or the
\* zero-hit policy allows class coverage, and the sweep reached the end of the
\* name without a failure point; then every non-whitespace position lies in a
\* hit or a class segment; without hits and without the policy the sweep is not
\* run, coverage_sequence stays empty and the name is unexplained
C1_ExplainedIffSweepCompletes ==
    g_pc = "done" =>
        /\ glued_explained <=>
               /\ protected_hits # <<>> \/ AUDIT_GLUED_COVERAGE_NO_P_HITS
               /\ sweep_i >= Len(glued_name)
               /\ coverage_fail_offset = -1
        /\ glued_explained =>
               \A k \in 1..Len(glued_name) :
                   ~IsSpace(glued_name[k]) => InHitOrSegment(k)
        /\ (protected_hits = <<>> /\ ~AUDIT_GLUED_COVERAGE_NO_P_HITS) =>
               coverage_sequence = <<>> /\ ~glued_explained

\* an explained name with a hit, a blank and a class segment
C1_Witness ==
    /\ g_pc = "done"
    /\ glued_explained
    /\ protected_hits # <<>>
    /\ coverage_sequence # <<>>
    /\ \E k \in 1..Len(glued_name) : IsSpace(glued_name[k])

ExampleSequence ==
    << [class |-> "ENV", start |-> 0, end |-> 4],
       [class |-> "NUM", start |-> 4, end |-> 6],
       [class |-> "TECH", start |-> 6, end |-> 9] >>

\* C2: "prod01sqlbackup" with ENV = {"prod"}, TECH = {"sql"}, an empty protect
\* set and the zero-hit policy enabled gives coverage_sequence = ENV 0..4,
\* NUM 4..6, TECH 6..9, glued_explained = False and coverage_fail_offset = 9
C2_CoverageExample ==
    ( /\ g_pc = "done"
      /\ glued_name = ProdExample
      /\ env_terms = <<(<<"p", "r", "o", "d">>)>>
      /\ tech_terms = <<(<<"s", "q", "l">>)>>
      /\ reg_terms = <<>>
      /\ p_chunks = <<>>
      /\ AUDIT_GLUED_COVERAGE_NO_P_HITS )
        => /\ coverage_sequence = ExampleSequence
           /\ ~glued_explained
           /\ coverage_fail_offset = 9

\* the example name has been analysed with the example's catalog
C2_Witness ==
    /\ g_pc = "done"
    /\ glued_name = ProdExample
    /\ env_terms = <<(<<"p", "r", "o", "d">>)>>
    /\ tech_terms = <<(<<"s", "q", "l">>)>>
    /\ reg_terms = <<>>
    /\ p_chunks = <<>>
    /\ AUDIT_GLUED_COVERAGE_NO_P_HITS

\* position of a class in class_precedence
Precedence(cls) == CHOOSE k \in 1..Len(class_precedence) : class_precedence[k] = cls

\* the classes that match the name at offset i, other than cls
OtherMatches(cls, i) ==
    {c \in {class_precedence[k] : k \in 1..Len(class_precedence)} :
        c # cls /\ P2MatchEnd(c, GCatalog, glued_name, i) # -1}

\* C3: a segment the sweep selected is a match of its class, no class has a
\* longer match at the same offset, and a class with a match of the same
\* length there comes later in GUID > TECH > ENV > REG > NUM
C3_LongestThenPrecedence ==
    \A n \in 1..Len(coverage_sequence) :
        LET item == coverage_sequence[n]
        IN  /\ P2MatchEnd(item.class, GCatalog, glued_name, item.start) = item.end
            /\ \A c \in OtherMatches(item.class, item.start) :
                   LET e == P2MatchEnd(c, GCatalog, glued_name, item.start)
                   IN  /\ e <= item.end
                       /\ e = item.end => Precedence(item.class) < Precedence(c)

\* one name with an equal-length tie and with a longer match of a later class
C3_Witness ==
    /\ g_pc = "done"
    /\ \E n \in 1..Len(coverage_sequence) :
           \E c \in OtherMatches(coverage_sequence[n].class, coverage_sequence[n].start) :
               P2MatchEnd(c, GCatalog, glued_name, coverage_sequence[n].start)
                   = coverage_sequence[n].end
    /\ \E n \in 1..Len(coverage_sequence) :
           \E c \in OtherMatches(coverage_sequence[n].class, coverage_sequence[n].start) :
               /\ P2MatchEnd(c, GCatalog, glued_name, coverage_sequence[n].start)
                      < coverage_sequence[n].end
               /\ Precedence(c) < Precedence(coverage_sequence[n].class)

(***************************************************************************)
(* An empty vocabulary category                                            *)
(***************************************************************************)
\* C9: an empty category matches nothing: its masking pass replaces nothing on
\* any name, and a glued name has an empty embedded_tech_list when TECH is
\* empty and an empty embedded_env_list when ENV is empty
C9_EmptyCategoryMatchesNothing ==
    FirstDone =>
        /\ tech_terms = <<>> =>
               /\ rec.mask_hits["TECH"] = 0
               /\ rec.is_glued => rec.embedded_tech_list = <<>>
        /\ env_terms = <<>> =>
               /\ rec.mask_hits["ENV"] = 0
               /\ rec.is_glued => rec.embedded_env_list = <<>>
        /\ reg_terms = <<>> => rec.mask_hits["REG"] = 0

\* a glued name with a digit has been masked with no TECH term
C9_Witness ==
    /\ FirstDone
    /\ tech_terms = <<>>
    /\ rec.is_glued
    /\ \E k \in 1..Len(original_name) : IsDigit(original_name[k])

\* C9 in the coverage sweep: no segment has the class of an empty category
C9_SweepNeverSelectsEmptyCategory ==
    \A n \in 1..Len(coverage_sequence) :
        /\ tech_terms = <<>> => coverage_sequence[n].class # "TECH"
        /\ env_terms = <<>> => coverage_sequence[n].class # "ENV"
        /\ reg_terms = <<>> => coverage_sequence[n].class # "REG"

(***************************************************************************)
(* Phase 2: the protect sets.  A DataFrame is its set of columns and the   *)
(* list of its rows; a cost is a whole number of cents                     *)
(***************************************************************************)
AUDIT_P_SET_MIN_SUPPORT == 3

AUDIT_P_SET_MAX_SIZE == 500

\* AUDIT_P_SET_COST_THRESHOLD_PCT = 0.01, as a fraction
AUDIT_P_SET_COST_THRESHOLD_PCT_NUM == 1

AUDIT_P_SET_COST_THRESHOLD_PCT_DEN == 100

\* df.empty
IsEmptyFrame(df) == df.columns = {} \/ df.rows = <<>>

Range(q) == {q[k] : k \in 1..Len(q)}

\* q without its m-th element
RemoveAt(q, m) == [k \in 1..(Len(q) - 1) |-> IF k < m THEN q[k] ELSE q[k + 1]]

\* the elements of q, each once, in the order of their first occurrence
RECURSIVE Distinct(_)
Distinct(q) ==
    IF q = <<>> THEN <<>>
    ELSE <<Head(q)>> \o Distinct(SelectSeq(Tail(q), LAMBDA x : x # Head(q)))

\* a < b for two keys, lists of numbers of one length
RECURSIVE KeyLess(_, _)
KeyLess(a, b) ==
    IF a = <<>> THEN FALSE
    ELSE IF Head(a) = Head(b) THEN KeyLess(Tail(a), Tail(b))
    ELSE Head(a) < Head(b)

\* items by descending key, items of equal key in their given order
RECURSIVE StableSortDesc(_, _)
StableSortDesc(items, keys) ==
    IF items = <<>> THEN <<>>
    ELSE LET m == CHOOSE i \in 1..Len(items) :
                      /\ \A j \in 1..Len(items) : ~KeyLess(keys[i], keys[j])
                      /\ \A j \in 1..(i - 1) : KeyLess(keys[j], keys[i])
         IN  <<items[m]>> \o StableSortDesc(RemoveAt(items, m), RemoveAt(keys, m))

\* str.contains(DELIMITERS_REGEX_PATTERN)
HasDelimiter(s) == \E k \in 1..Len(s) : IsDelimiter(s[k])

\* re.split(DELIMITERS_REGEX_PATTERN, s) from offset i on, cur the segment so far
RECURSIVE SplitDelimiters(_, _, _)
SplitDelimiters(s, i, cur) ==
    IF i >= Len(s) THEN <<cur>>
    ELSE IF IsDelimiter(s[i + 1])
         THEN IF i > 0 /\ IsDelimiter(s[i]) THEN SplitDelimiters(s, i + 1, cur)
              ELSE <<cur>> \o SplitDelimiters(s, i + 1, <<>>)
         ELSE SplitDelimiters(s, i + 1, Append(cur, s[i + 1]))

\* match.group(0) of re.finditer(POTENTIAL_ENTITY_REGEX_PATTERN, segment)
SegmentSpans(segment) ==
    LET sp == EntitySpans(segment, 0)
    IN  [k \in 1..Len(sp) |-> Slice(segment, sp[k][1], sp[k][2])]

\* the spans of a name, segment by segment
NameSpans(name) ==
    LET segs == SplitDelimiters(name, 0, <<>>)
    IN  Join([k \in 1..Len(segs) |-> SegmentSpans(segs[k])])

\* self.exclusion_sets.values()
ExclusionSets == {Range(tech_terms), Range(env_terms), Range(reg_terms)}

\* is_excluded, and is_excluded with no term set consulted
ExcludesNothing(span_norm) == FALSE

IsExcluded(span_norm) == \E term_set \in ExclusionSets : span_norm \in term_set

\* what one row appends to spans: one entry per span that is not excluded
RowOccurrences(row) ==
    LET sp   == NameSpans(row.name)
        occ  == [k \in 1..Len(sp) |->
                    [span_orig |-> sp[k], span_norm |-> Lower(NFKC(sp[k])), row |-> row]]
    IN  SelectSeq(occ, LAMBDA o : ~IsExcluded(o.span_norm))

\* delim_df: the rows whose name holds a delimiter
DelimRows(df) == SelectSeq(df.rows, LAMBDA r : HasDelimiter(r.name))

\* the entries of spans, in the order the loop over delim_df appends them
SpanOccurrences(df) ==
    LET rows == DelimRows(df)
    IN  Join([k \in 1..Len(rows) |-> RowOccurrences(rows[k])])

\* spans[span]: the entries of one normalised span
SpanData(occ, span) == SelectSeq(occ, LAMBDA o : o.span_norm = span)

\* spans.keys(): a dict keeps the order of insertion
SpanKeys(occ) == Distinct([k \in 1..Len(occ) |-> occ[k].span_norm])

\* str.islower() and str.istitle() of a run of ASCII letters
IsLowerStr(v) == v # <<>> /\ \A k \in 1..Len(v) : v[k] \in LowerLetters

IsTitleStr(v) ==
    /\ v # <<>>
    /\ v[1] \in UpperLetters
    /\ \A k \in 2..Len(v) : v[k] \in LowerLetters

\* the default tie-break alone: sorted(tied_variants)[0]
DisplayFormSmallestTied(case_variants) ==
    LET variants == Range(case_variants)
        count(v) == Len(SelectSeq(case_variants, LAMBDA x : x = v))
    IN  SortedStrings({v \in variants : \A w \in variants : count(w) <= count(v)})[1]

\* lines 100-107: the most frequent case variant; among the tied ones a
\* lowercase one, else a titlecase one, else any, the first in sorted order
DisplayForm(case_variants) ==
    LET variants == Range(case_variants)
        count(v) == Len(SelectSeq(case_variants, LAMBDA x : x = v))
        max_freq == CHOOSE n \in {count(v) : v \in variants} :
                        \A v \in variants : count(v) <= n
        tied     == {v \in variants : count(v) = max_freq}
    IN  IF \E v \in tied : IsLowerStr(v)
        THEN SortedStrings({v \in tied : IsLowerStr(v)})[1]
        ELSE IF \E v \in tied : IsTitleStr(v)
        THEN SortedStrings({v \in tied : IsTitleStr(v)})[1]
        ELSE SortedStrings(tied)[1]

\* phase_one_df.loc[RESOURCE_ID == id, RESOURCE_NAME].iloc[0]
NameOfId(df, id) == (CHOOSE r \in Range(df.rows) : r.id = id).name

FreqColumns ==
    {"chunk", "display_form", "length", "support_names", "spread_subs",
     "spread_rgs", "sample_name_1", "sample_name_2"}

\* lines 109-118: the record of one span
FreqRecord(df, span, data) ==
    [chunk         |-> span,
     display_form  |-> DisplayForm([k \in 1..Len(data) |-> data[k].span_orig]),
     length        |-> Len(span),
     support_names |-> Cardinality({data[k].row.id : k \in 1..Len(data)}),
     spread_subs   |-> Cardinality({data[k].row.sub : k \in 1..Len(data)}),
     spread_rgs    |-> Cardinality({data[k].row.rg : k \in 1..Len(data)}),
     sample_name_1 |-> Str(NameOfId(df, data[1].row.id)),
     sample_name_2 |-> IF Len(data) > 1 THEN Str(NameOfId(df, data[Len(data)].row.id))
                       ELSE NotAString]

\* head(n)
Head_n(q, n) == IF Len(q) <= n THEN q ELSE SubSeq(q, 1, n)

\* _build_protect_set: the frame it returns
BuildProtectSet(df) ==
    LET occ     == SpanOccurrences(df)
        keys    == SpanKeys(occ)
        all     == [k \in 1..Len(keys) |-> FreqRecord(df, keys[k], SpanData(occ, keys[k]))]
        records == SelectSeq(all, LAMBDA r : r.support_names >= AUDIT_P_SET_MIN_SUPPORT)
        sorted  == StableSortDesc(records,
                       [k \in 1..Len(records) |->
                           <<records[k].length, records[k].support_names>>])
    IN  IF records = <<>> THEN EmptyFrame
        ELSE [columns |-> FreqColumns, rows |-> Head_n(sorted, AUDIT_P_SET_MAX_SIZE)]

CostColumns ==
    {"chunk", "display_form", "length", "support_names", "spread_subs",
     "spread_rgs", "total_cost", "cost_pct_of_total"}

\* phase_one_df[COST].sum()
TotalMonthlyCost(df) == SumSeq([k \in 1..Len(df.rows) |-> df.rows[k].cost])

\* lines 180-189: the record of one span; cost_pct_of_total is a fraction
CostRecord(span, data, total_monthly_cost) ==
    [chunk             |-> span,
     display_form      |-> DisplayForm([k \in 1..Len(data) |-> data[k].span_orig]),
     length            |-> Len(span),
     support_names     |-> Cardinality({data[k].row.id : k \in 1..Len(data)}),
     spread_subs       |-> Cardinality({data[k].row.sub : k \in 1..Len(data)}),
     spread_rgs        |-> Cardinality({data[k].row.rg : k \in 1..Len(data)}),
     total_cost        |-> SumSeq([k \in 1..Len(data) |-> data[k].row.cost]),
     cost_pct_of_total |-> <<SumSeq([k \in 1..Len(data) |-> data[k].row.cost]),
                             total_monthly_cost>>]

\* cost_pct_of_total >= AUDIT_P_SET_COST_THRESHOLD_PCT, the total being positive
ReachesCostThreshold(r) ==
    r.cost_pct_of_total[1] * AUDIT_P_SET_COST_THRESHOLD_PCT_DEN
        >= AUDIT_P_SET_COST_THRESHOLD_PCT_NUM * r.cost_pct_of_total[2]

\* _build_protect_set_by_cost: the frames it can return; sort_values on one
\* column is no stable sort, so records of equal total_cost come in any order
BuildProtectSetByCost(df) ==
    LET total   == TotalMonthlyCost(df)
        occ     == SpanOccurrences(df)
        keys    == SpanKeys(occ)
        all     == [k \in 1..Len(keys) |-> CostRecord(keys[k], SpanData(occ, keys[k]), total)]
        records == SelectSeq(all, ReachesCostThreshold)
    IN  IF DelimRows(df) = <<>> \/ total = 0 \/ records = <<>> THEN {EmptyFrame}
        ELSE {[columns |-> CostColumns, rows |-> q] :
                 q \in {o \in Orders(Range(records)) :
                           \A k \in 1..(Len(o) - 1) : o[k].total_cost >= o[k + 1].total_cost}}

\* the row of df with the chunk, as a list of no or one row
RowOfChunk(df, chunk) == SelectSeq(df.rows, LAMBDA r : r.chunk = chunk)

\* lines 221-238: one row of the outer merge, its columns coalesced and filled
CombinedRow(freq_df, cost_df, chunk) ==
    LET f    == RowOfChunk(freq_df, chunk)
        c    == RowOfChunk(cost_df, chunk)
        both == IF f # <<>> THEN f[1] ELSE c[1]
    IN  [chunk             |-> chunk,
         display_form      |-> both.display_form,
         length            |-> both.length,
         support_names     |-> both.support_names,
         spread_subs       |-> both.spread_subs,
         spread_rgs        |-> both.spread_rgs,
         total_cost        |-> IF c # <<>> THEN c[1].total_cost ELSE 0,
         cost_pct_of_total |-> IF c # <<>> THEN c[1].cost_pct_of_total ELSE <<0, 1>>,
         in_frequency_set  |-> f # <<>>,
         in_cost_set       |-> c # <<>>]

final_cols ==
    <<"chunk", "display_form", "length", "support_names", "spread_subs",
      "spread_rgs", "total_cost", "cost_pct_of_total", "in_frequency_set",
      "in_cost_set">>

\* lines 221-250: the combined frame of two frames that both have a chunk column
CombinedFrame(freq_df, cost_df) ==
    LET chunks == SortedStrings({r.chunk : r \in Range(freq_df.rows) \cup Range(cost_df.rows)})
        rows   == [k \in 1..Len(chunks) |-> CombinedRow(freq_df, cost_df, chunks[k])]
    IN  [written |-> TRUE,
         columns |-> final_cols,
         rows    |-> StableSortDesc(rows,
                         [k \in 1..Len(rows) |->
                             <<rows[k].support_names, rows[k].total_cost>>])]

\* df[column] = True: the frame gets the column; its value is not stored
WithColumn(df, column) == [df EXCEPT !.columns = @ \cup {column}]

(***************************************************************************)
(* Phase 2: _analyze_glued_names over the rows of the corpus               *)
(***************************************************************************)
\* lines 316-341: the while loop from offset i on
RECURSIVE Sweep(_, _, _, _, _)
Sweep(cat, s, cov, i, seq) ==
    IF i >= Len(s)
    THEN [coverage_sequence |-> seq, glued_explained |-> TRUE, coverage_fail_offset |-> -1]
    ELSE IF cov[i + 1] \/ IsSpace(s[i + 1]) THEN Sweep(cat, s, cov, i + 1, seq)
    ELSE LET best == BestMatch(cat, s, i)
         IN  IF best # NoMatch
             THEN Sweep(cat, s, MarkCovered(cov, best.start, best.end), best.end,
                        Append(seq, best))
             ELSE [coverage_sequence |-> seq, glued_explained |-> FALSE,
                   coverage_fail_offset |-> i]

\* lines 295-360: the result row of one glued row
AnalyzeRow(cat, chunks, flag, row) ==
    LET name == NFKC(row.name)
        st   == Overlay(chunks, name)
        sw   == IF SkipsSweep(st.hits, flag)
                THEN [coverage_sequence |-> <<>>, glued_explained |-> FALSE,
                      coverage_fail_offset |-> -1]
                ELSE Sweep(cat, name, st.covered, 0, <<>>)
    IN  [id                   |-> row.id,
         glued_explained      |-> sw.glued_explained,
         protected_hits       |-> st.hits,
         coverage_sequence    |-> sw.coverage_sequence,
         coverage_fail_offset |-> sw.coverage_fail_offset,
         glued_masked_string  |-> IF sw.glued_explained
                                  THEN Str(RenderMasked(name, sw.coverage_sequence))
                                  ELSE NotAString]

GluedColumns ==
    {"id", "glued_explained", "protected_hits", "coverage_sequence",
     "coverage_fail_offset", "glued_masked_string"}

\* glued_df
GluedRows(df) == SelectSeq(df.rows, LAMBDA r : r.is_glued)

\* line 282: sorted(protect_set_df['chunk'].tolist(), key=len, reverse=True)
ChunksOf(protect_set_df) ==
    LET chunks == [k \in 1..Len(protect_set_df.rows) |-> protect_set_df.rows[k].chunk]
    IN  StableSortDesc(chunks, [k \in 1..Len(chunks) |-> <<Len(chunks[k])>>])

(***************************************************************************)
(* Phase 2: the roll-ups and the suggested entities                        *)
(***************************************************************************)
\* glued_explained of a row of merged_df: "NA" where no result row has its id
MergedExplained(results, row) ==
    LET hit == SelectSeq(results.rows, LAMBDA g : g.id = row.id)
    IN  IF IsEmptyFrame(results) \/ hit = <<>> THEN "NA"
        ELSE IF hit[1].glued_explained THEN "True" ELSE "False"

\* lines 398-423 for one scope: the counts behind n_resources, is_glued_rate
\* and glued_explained_rate (a mean skips NA; no glued row gives NaN)
ScopeRecord(results, scope_type, scope_value, scope_rows) ==
    LET glued_rows == SelectSeq(scope_rows, LAMBDA r : r.is_glued)
        known      == SelectSeq(glued_rows, LAMBDA r : MergedExplained(results, r) # "NA")
        explained  == SelectSeq(glued_rows, LAMBDA r : MergedExplained(results, r) = "True")
    IN  [scope_type           |-> scope_type,
         scope_value          |-> scope_value,
         n_resources          |-> Len(scope_rows),
         is_glued_rate        |-> <<Len(glued_rows), Len(scope_rows)>>,
         glued_explained_rate |-> IF glued_rows = <<>> THEN "NaN"
                                  ELSE <<Len(explained), Len(known)>>]

\* merged_df[scope_type] of one row
ScopeValue(row, scope_type) ==
    CASE scope_type = "sub_account_name"     -> row.sub
      [] scope_type = "resource_group"       -> row.rg
      [] scope_type = "billing_account_name" -> row.ba

\* merged_df[scope_type].unique(), and the records of the column's scopes
ScopeRecords(df, results, scope_type) ==
    LET values == Distinct([k \in 1..Len(df.rows) |-> ScopeValue(df.rows[k], scope_type)])
    IN  [k \in 1..Len(values) |->
            ScopeRecord(results, scope_type, values[k],
                        SelectSeq(df.rows, LAMBDA r : ScopeValue(r, scope_type) = values[k]))]

\* _generate_corpus_rollups: summary_records
SummaryRecords(df, results) ==
    <<ScopeRecord(results, "overall", "overall", df.rows)>>
        \o ScopeRecords(df, results, "sub_account_name")
        \o ScopeRecords(df, results, "resource_group")
        \o ScopeRecords(df, results, "billing_account_name")

\* str.contains(chunk, case=False) for a chunk of letters
ContainsIgnoringCase(chunk, name) == \E i \in 0..(Len(name) - Len(chunk)) : LitAt(chunk, name, i)

\* SuggestedEntities.generate_yaml: the entities list
Entities(df, protect_set_df) ==
    LET all == [k \in 1..Len(protect_set_df.rows) |->
                   [entity_name     |-> protect_set_df.rows[k].chunk,
                    found_in_chunks |->
                        Distinct(LET hit == SelectSeq(df.rows,
                                     LAMBDA r : ContainsIgnoringCase(protect_set_df.rows[k].chunk, r.name))
                                 IN  [j \in 1..Len(hit) |-> hit[j].name])]]
    IN  SelectSeq(all, LAMBDA e : e.found_in_chunks # <<>>)

(***************************************************************************)
(* Phase 2: AuditPhaseTwo.run, one action per step of the method           *)
(***************************************************************************)
MaxRows == 4

\* "None" is a resource name that is missing: no str, with no character
RunName(str) ==
    CASE str = "app-data"    -> <<"a", "p", "p", "-", "d", "a", "t", "a">>
      [] str = "app_sql"     -> <<"a", "p", "p", "_", "s", "q", "l">>
      [] str = "app.db"      -> <<"a", "p", "p", ".", "d", "b">>
      [] str = "sql_sql_sql" -> <<"s", "q", "l", "_", "s", "q", "l", "_", "s", "q", "l">>
      [] str = "appdb"       -> <<"a", "p", "p", "d", "b">>
      [] str = "None"        -> <<>>

\* the name, the sub account and the cost of the rows a corpus is made of
RowChoices ==
    { <<"app-data", "s1", 100>>,
      <<"app_sql", "s1", 100>>, <<"app_sql", "s2", 0>>,
      <<"app.db", "s2", 100>>,
      <<"sql_sql_sql", "s1", 1>>,
      <<"appdb", "s1", 100>>,
      <<"None", "s1", 0>> }

\* a row of the frame AuditPhaseOne.run returns, with the columns Phase 2 reads;
\* Phase 1 leaves RESOURCE_NAME as it is and computes is_glued from
\* original_name, the empty string when the name is no str
PhaseOneRow(id, choice) ==
    [id |-> id, name |-> RunName(choice[1]), isstr |-> choice[1] # "None",
     sub |-> choice[2], rg |-> "rg1", ba |-> "ba1", cost |-> choice[3],
     is_glued |-> IsGlued(OriginalNameOf(IF choice[1] # "None"
                                         THEN Str(RunName(choice[1]))
                                         ELSE NotAString).val)]

PhaseOneColumns ==
    {"id", "name", "sub", "rg", "ba", "cost", "is_glued"}

\* the corpora of at most MaxRows rows; a resource id names one row
Corpora ==
    UNION { {[columns |-> PhaseOneColumns,
              rows    |-> [k \in 1..n |-> PhaseOneRow(k, q[k])]] :
                q \in [1..n -> RowChoices]} : n \in 0..MaxRows }

RunTechChoices == { {}, {<<"s", "q", "l">>} }

RInit ==
    /\ P1Idle
    /\ XIdle
    /\ \E T \in RunTechChoices : tech_terms \in Orders(T)
    /\ env_terms = <<>>
    /\ reg_terms = <<>>
    /\ row_name = NotAString
    /\ g_pc = "idle"
    /\ AUDIT_GLUED_COVERAGE_NO_P_HITS \in BOOLEAN
    /\ p_chunks = <<>>
    /\ glued_name = <<>>
    /\ covered = <<>>
    /\ protected_hits = <<>>
    /\ coverage_sequence = <<>>
    /\ glued_explained = TRUE
    /\ coverage_fail_offset = -1
    /\ sweep_i = 0
    /\ glued_masked_string = NotAString
    /\ run_pc = "start"
    /\ phase_one_df \in Corpora
    /\ protect_set_freq_df = EmptyFrame
    /\ protect_set_cost_df = EmptyFrame
    /\ combined_df = NoFile
    /\ glued_results_df = EmptyFrame
    /\ summary_df = NoFile
    /\ suggested_entities = NoFile
    /\ raised = "None"

\* what run leaves alone at every step
RunFixed ==
    /\ UNCHANGED <<tech_terms, env_terms, reg_terms>>
    /\ UNCHANGED p1vars
    /\ UNCHANGED gvars
    /\ UNCHANGED xvars
    /\ UNCHANGED phase_one_df

\* lines 43-46: an empty input skips Phase 2
RunStart ==
    /\ run_pc = "start"
    /\ run_pc' = IF IsEmptyFrame(phase_one_df) THEN "returned" ELSE "freq"
    /\ UNCHANGED <<protect_set_freq_df, protect_set_cost_df, combined_df,
                   glued_results_df, summary_df, suggested_entities, raised>>
    /\ RunFixed

\* line 49: protect_set_freq_df = self._build_protect_set()
RunBuildProtectSet ==
    /\ run_pc = "freq"
    /\ protect_set_freq_df' = BuildProtectSet(phase_one_df)
    /\ run_pc' = "cost"
    /\ UNCHANGED <<protect_set_cost_df, combined_df, glued_results_df, summary_df,
                   suggested_entities, raised>>
    /\ RunFixed

\* line 50: protect_set_cost_df = self._build_protect_set_by_cost()
RunBuildProtectSetByCost ==
    /\ run_pc = "cost"
    /\ protect_set_cost_df' \in BuildProtectSetByCost(phase_one_df)
    /\ run_pc' = "combine"
    /\ UNCHANGED <<protect_set_freq_df, combined_df, glued_results_df, summary_df,
                   suggested_entities, raised>>
    /\ RunFixed

\* line 53, _create_combined_protect_set: nothing when both frames are empty;
\* else both frames get their flag column, and dropping the sample columns of a
\* frame without them, or merging on a chunk column a frame lacks, raises KeyError
RunCreateCombined ==
    /\ run_pc = "combine"
    /\ IF IsEmptyFrame(protect_set_freq_df) /\ IsEmptyFrame(protect_set_cost_df)
       THEN /\ run_pc' = "analyze"
            /\ UNCHANGED <<protect_set_freq_df, protect_set_cost_df, combined_df, raised>>
       ELSE /\ protect_set_freq_df' = WithColumn(protect_set_freq_df, "in_frequency_set")
            /\ protect_set_cost_df' = WithColumn(protect_set_cost_df, "in_cost_set")
            /\ IF /\ {"sample_name_1", "sample_name_2"} \subseteq protect_set_freq_df.columns
                  /\ "chunk" \in protect_set_freq_df.columns
                  /\ "chunk" \in protect_set_cost_df.columns
               THEN /\ combined_df' = CombinedFrame(protect_set_freq_df, protect_set_cost_df)
                    /\ run_pc' = "analyze"
                    /\ UNCHANGED raised
               ELSE /\ raised' = "KeyError"
                    /\ run_pc' = "raised"
                    /\ UNCHANGED combined_df
    /\ UNCHANGED <<glued_results_df, summary_df, suggested_entities>>
    /\ RunFixed

\* line 56, _analyze_glued_names: no glued row gives an empty frame; else the
\* chunk column is read, which a frame without it answers with KeyError; else
\* one result row per glued row.  unicodedata.normalize raises TypeError on a
\* name that is no str; nothing catches it, so the results list of the rows
\* before it is lost with the call and no file is written
RunAnalyzeGlued ==
    /\ run_pc = "analyze"
    /\ IF GluedRows(phase_one_df) = <<>>
       THEN /\ glued_results_df' = EmptyFrame
            /\ run_pc' = "rollups"
            /\ UNCHANGED raised
       ELSE IF "chunk" \notin protect_set_freq_df.columns
       THEN /\ raised' = "KeyError"
            /\ run_pc' = "raised"
            /\ UNCHANGED glued_results_df
       ELSE IF \E r \in Range(GluedRows(phase_one_df)) : ~r.isstr
       THEN /\ raised' = "TypeError"
            /\ run_pc' = "raised"
            /\ UNCHANGED glued_results_df
       ELSE /\ glued_results_df' =
                   [columns |-> GluedColumns,
                    rows    |-> LET glued == GluedRows(phase_one_df)
                                IN  [k \in 1..Len(glued) |->
                                        AnalyzeRow([TECH |-> tech_terms, ENV |-> env_terms,
                                                    REG |-> reg_terms],
                                                   ChunksOf(protect_set_freq_df),
                                                   AUDIT_GLUED_COVERAGE_NO_P_HITS,
                                                   glued[k])]]
            /\ run_pc' = "rollups"
            /\ UNCHANGED raised
    /\ UNCHANGED <<protect_set_freq_df, protect_set_cost_df, combined_df, summary_df,
                   suggested_entities>>
    /\ RunFixed

\* line 59: self._generate_corpus_rollups(glued_results_df)
RunRollups ==
    /\ run_pc = "rollups"
    /\ summary_df' = [written |-> TRUE,
                      rows    |-> SummaryRecords(phase_one_df, glued_results_df)]
    /\ run_pc' = "suggest"
    /\ UNCHANGED <<protect_set_freq_df, protect_set_cost_df, combined_df,
                   glued_results_df, suggested_entities, raised>>
    /\ RunFixed

\* line 62: self._generate_suggested_entities(protect_set_freq_df), then return
RunSuggestedEntities ==
    /\ run_pc = "suggest"
    /\ LET entities == Entities(phase_one_df, protect_set_freq_df)
       IN  suggested_entities' =
               IF IsEmptyFrame(protect_set_freq_df) \/ entities = <<>> THEN NoFile
               ELSE [written |-> TRUE, entities |-> entities]
    /\ run_pc' = "returned"
    /\ UNCHANGED <<protect_set_freq_df, protect_set_cost_df, combined_df,
                   glued_results_df, summary_df, raised>>
    /\ RunFixed

RunNext ==
    \/ RunStart
    \/ RunBuildProtectSet
    \/ RunBuildProtectSetByCost
    \/ RunCreateCombined
    \/ RunAnalyzeGlued
    \/ RunRollups
    \/ RunSuggestedEntities

SpecRun == RInit /\ [][RunNext]_vars

(***************************************************************************)
(* The display form of a span: lines 98-107 of _build_protect_set, the     *)
(* same as lines 172-179 of _build_protect_set_by_cost, applied to the     *)
(* list data['case_variants'] of one span                                  *)
(***************************************************************************)
MaxVariants == 4

\* the raw forms a span that normalises to "foo" can have in a name
FooVariants ==
    { <<a, b, c>> : a \in {"f", "F"}, b \in {"o", "O"}, c \in {"o", "O"} }

\* the audit's variables while another part of the program is looked at
AuditIdle ==
    /\ tech_terms = <<>>
    /\ env_terms = <<>>
    /\ reg_terms = <<>>
    /\ row_name = NotAString
    /\ P1Idle
    /\ GIdle
    /\ RIdle

DInit ==
    /\ AuditIdle
    /\ CIdle
    /\ TIdle
    /\ MIdle
    /\ d_pc = "call"
    /\ d_case_variants \in UNION {[1..n -> FooVariants] : n \in 1..MaxVariants}
    /\ d_display_form = NotAString

\* lines 98-107
DChooseDisplayForm ==
    /\ d_pc = "call"
    /\ d_display_form' = Str(DisplayForm(d_case_variants))
    /\ d_pc' = "done"
    /\ UNCHANGED d_case_variants
    /\ UNCHANGED <<tech_terms, env_terms, reg_terms>>
    /\ UNCHANGED <<p1vars, gvars, rvars, cvars, tvars, mvars>>

DNext == DChooseDisplayForm

SpecDisplay == DInit /\ [][DNext]_vars

(***************************************************************************)
(* EntityNameSimilarity: the clusterer.  A node is an index into the list  *)
(* of names, from 1; a similarity is a number of ten-thousandths, and an   *)
(* average of similarities is compared as an exact fraction                *)
(***************************************************************************)
\* SimilarityConfig.DUPLICATE_THRESHOLD = 0.92
DUPLICATE_THRESHOLD == 9200

\* SimilarityConfig.RELATED_THRESHOLD = 0.80
RELATED_THRESHOLD == 8000

\* SimilarityConfig.CONFIDENCE_THRESHOLD = 0.95
CONFIDENCE_THRESHOLD == 9500

RECIPROCAL_TOP_K == 5

\* str.strip()
RECURSIVE Strip(_)
Strip(s) ==
    IF s = <<>> THEN s
    ELSE IF IsSpace(Head(s)) THEN Strip(Tail(s))
    ELSE IF IsSpace(s[Len(s)]) THEN Strip(SubSeq(s, 1, Len(s) - 1))
    ELSE s

\* _normalize
Normalize(s) == Strip(Lower(NFKC(s)))

\* entity names: keys of a dict, so distinct; raw, so of any case
NameList ==
    << <<"a", "b">>, <<"A", "c">>, <<"a", "d">>, <<"a", "e">>,
       <<"a", "f">>, <<"a", "g">>, <<"a", "h">> >>

\* the place of a name in the list the names are drawn from
NameId(name) == CHOOSE k \in 1..Len(NameList) : NameList[k] = name

\* sim_matrix[i, j]; the matrix is symmetric and kept by pair of names
SimOf(nm, sim, i, j) ==
    LET a == NameId(nm[i])
        b == NameId(nm[j])
    IN  IF a < b THEN sim[<<a, b>>] ELSE sim[<<b, a>>]

\* lines 50-58: neighbors[k]; the double loop appends the lower nodes first
Neighbors(nm, sim, k) ==
    SelectSeq([j \in 1..Len(nm) |-> j],
              LAMBDA j : j # k /\ SimOf(nm, sim, k, j) >= RELATED_THRESHOLD)

\* neighbors.keys(): the nodes in the order the double loop first appends to them
NeighborKeys(nm, sim) ==
    Distinct(Join([i \in 1..Len(nm) |->
                      LET up == SelectSeq(Neighbors(nm, sim, i), LAMBDA j : j > i)
                      IN  Join([t \in 1..Len(up) |-> <<i, up[t]>>])]))

\* lines 61-63: topk[k] = lst[:RECIPROCAL_TOP_K]
TopK(nm, sim, k) == Head_n(Neighbors(nm, sim, k), RECIPROCAL_TOP_K)

\* lines 76-79 with every link typed "related"
LinkTypeRelatedOnly(s) == "related"

\* lines 76-79: the type of a link of similarity s >= RELATED_THRESHOLD
LinkType(s) == IF s >= DUPLICATE_THRESHOLD THEN "duplicate" ELSE "related"

\* lines 66-79: the edges the node i contributes
EdgesOf(nm, sim, i) ==
    LET keptj(j) ==
            /\ \/ \E x \in 1..Len(TopK(nm, sim, j)) : TopK(nm, sim, j)[x] = i
               \/ SimOf(nm, sim, i, j) >= CONFIDENCE_THRESHOLD
            /\ SimOf(nm, sim, i, j) >= RELATED_THRESHOLD
        sel == SelectSeq(TopK(nm, sim, i), keptj)
    IN  [t \in 1..Len(sel) |->
            [i |-> i, j |-> sel[t], s |-> SimOf(nm, sim, i, sel[t]),
             t |-> LinkType(SimOf(nm, sim, i, sel[t]))]]

\* lines 81-87 with every edge kept
KeepEveryEdge(edges, seen) ==
    [k \in 1..Len(edges) |->
        [a |-> IF edges[k].i < edges[k].j THEN edges[k].i ELSE edges[k].j,
         b |-> IF edges[k].i < edges[k].j THEN edges[k].j ELSE edges[k].i,
         similarity |-> edges[k].s, link_type |-> edges[k].t]]

\* lines 81-87: the first edge of every unordered pair
RECURSIVE KeepFrom(_, _)
KeepFrom(edges, seen) ==
    IF edges = <<>> THEN <<>>
    ELSE LET e    == Head(edges)
             pair == {e.i, e.j}
         IN  IF pair \in seen THEN KeepFrom(Tail(edges), seen)
             ELSE <<[a |-> IF e.i < e.j THEN e.i ELSE e.j, b |-> Max(e.i, e.j),
                     similarity |-> e.s, link_type |-> e.t]>>
                      \o KeepFrom(Tail(edges), seen \cup {pair})

\* _find_reciprocal_topk_links
FindReciprocalTopkLinks(nm, sim) ==
    LET keys == NeighborKeys(nm, sim)
    IN  KeepFrom(Join([x \in 1..Len(keys) |-> EdgesOf(nm, sim, keys[x])]), {})

\* G.has_edge(i, j)
HasEdge(links, i, j) == \E e \in Range(links) : {e.a, e.b} = {i, j} /\ i # j

\* G[i][j]
EdgeOf(links, i, j) == CHOOSE e \in Range(links) : {e.a, e.b} = {i, j}

\* G.neighbors(i), as a list
GraphNeighbors(links, n, i) == SelectSeq([j \in 1..n |-> j], LAMBDA j : HasEdge(links, i, j))

\* one step from the nodes seen only
ComponentOneStep(links, n, seen) ==
    seen \cup {j \in 1..n : \E i \in seen : HasEdge(links, i, j)}

\* the connected component that holds the nodes seen
RECURSIVE Component(_, _, _)
Component(links, n, seen) ==
    LET next == seen \cup {j \in 1..n : \E i \in seen : HasEdge(links, i, j)}
    IN  IF next = seen THEN seen ELSE Component(links, n, next)

\* nx.connected_components(G): the components of the nodes v..n not seen yet
RECURSIVE ComponentsFrom(_, _, _, _)
ComponentsFrom(links, n, v, seen) ==
    IF v > n THEN <<>>
    ELSE IF v \in seen THEN ComponentsFrom(links, n, v + 1, seen)
    ELSE LET comp == Component(links, n, {v})
         IN  <<comp>> \o ComponentsFrom(links, n, v + 1, seen \cup comp)

\* G.degree(i)
Degree(links, n, i) == Len(GraphNeighbors(links, n, i))

\* the sum behind avg_sim[i]
SimSum(links, n, i) ==
    LET nbrs == GraphNeighbors(links, n, i)
    IN  SumSeq([k \in 1..Len(nbrs) |-> EdgeOf(links, i, nbrs[k]).similarity])

\* line 107: the key of a sorts before the key of b, two nodes of one component
RanksBefore(nm, links, a, b) ==
    LET n  == Len(nm)
        da == Degree(links, n, a)
        db == Degree(links, n, b)
        sa == SimSum(links, n, a)
        sb == SimSum(links, n, b)
    IN  \/ da > db
        \/ da = db /\ sa * db > sb * da
        \/ da = db /\ sa * db = sb * da /\ StrLess(nm[a], nm[b])

\* line 108: candidates[0]
CanonicalIdx(nm, links, comp) ==
    CHOOSE c \in comp : \A d \in comp \ {c} : RanksBefore(nm, links, c, d)

\* round(float(sim), 3): ten-thousandths to thousandths, a half to the even side
Round3(s) ==
    IF s % 10 > 5 \/ (s % 10 = 5 /\ (s \div 10) % 2 = 1) THEN (s \div 10) + 1
    ELSE s \div 10

\* lines 111-127 with the branch of line 118 taken for every member
MemberEntryOfBestLink(nm, links, canonical_idx, member_idx) ==
    LET nbrs == GraphNeighbors(links, Len(nm), member_idx)
        best == CHOOSE x \in {EdgeOf(links, member_idx, nbrs[k]).similarity : k \in 1..Len(nbrs)} :
                    \A k \in 1..Len(nbrs) : EdgeOf(links, member_idx, nbrs[k]).similarity <= x
    IN  [entity_name |-> nm[member_idx],
         similarity  |-> Round3(best),
         link_type   |-> "related"]

\* lines 111-127: the entry of one member
MemberEntry(nm, links, canonical_idx, member_idx) ==
    LET nbrs == GraphNeighbors(links, Len(nm), member_idx)
        best == CHOOSE x \in {EdgeOf(links, member_idx, nbrs[k]).similarity : k \in 1..Len(nbrs)} :
                    \A k \in 1..Len(nbrs) : EdgeOf(links, member_idx, nbrs[k]).similarity <= x
    IN  IF HasEdge(links, canonical_idx, member_idx)
        THEN [entity_name |-> nm[member_idx],
              similarity  |-> Round3(EdgeOf(links, canonical_idx, member_idx).similarity),
              link_type   |-> EdgeOf(links, canonical_idx, member_idx).link_type]
        ELSE [entity_name |-> nm[member_idx],
              similarity  |-> Round3(best),
              link_type   |-> "related"]

\* lines 103-132: the group of one component of two nodes or more
GroupOf(nm, links, comp) ==
    LET canonical_idx == CanonicalIdx(nm, links, comp)
        others        == SelectSeq([j \in 1..Len(nm) |-> j],
                                   LAMBDA j : j \in comp /\ j # canonical_idx)
    IN  [canonical |-> nm[canonical_idx],
         members   |-> [k \in 1..Len(others) |->
                           MemberEntry(nm, links, canonical_idx, others[k])]]

\* _create_groups_from_links
CreateGroupsFromLinks(nm, links) ==
    LET comps == SelectSeq(ComponentsFrom(links, Len(nm), 1, {}),
                           LAMBDA comp : Cardinality(comp) >= 2)
    IN  [k \in 1..Len(comps) |-> GroupOf(nm, links, comps[k])]

MaxNames == 4

\* distinct, related, duplicate and high-confidence
SimValues == {5000, 8500, 9300, 9600}

\* the lists that hold every element of S once
RECURSIVE ListsOf(_)
ListsOf(S) ==
    IF S = {} THEN {<<>>}
    ELSE UNION { {<<x>> \o q : q \in ListsOf(S \ {x})} : x \in S }

\* the pairs of names, each name written as its place in NameList
PairsOf(S) == {pr \in S \X S : pr[1] < pr[2]}

\* the names with the places S, in every order
NameOrders(S) == {[k \in 1..Len(q) |-> NameList[q[k]]] : q \in ListsOf(S)}

\* every list of at most MaxNames of the first names, with every matrix
GeneralInputs ==
    \E S \in SUBSET (1..MaxNames) :
        /\ entity_names \in NameOrders(S)
        /\ sim_matrix \in [PairsOf(S) -> SimValues]

\* a name related to six others that are not related to each other, the last
\* of NameList as much as the others or more
StarInputs ==
    /\ entity_names \in NameOrders(1..Len(NameList))
    /\ \E last \in {8500, 9000, 9600} :
           sim_matrix = [pr \in PairsOf(1..Len(NameList)) |->
                            IF pr[1] # 1 THEN 5000
                            ELSE IF pr[2] = Len(NameList) THEN last
                            ELSE 8500]

\* three names at 0.95 or more from each other and a fourth at 0.5 from each
TrioInputs ==
    /\ entity_names \in NameOrders(1..4)
    /\ \E x, y, z \in {9500, 9600, 9900} :
           sim_matrix = [pr \in PairsOf(1..4) |->
                            IF pr[2] = 4 THEN 5000
                            ELSE IF pr = <<1, 2>> THEN x
                            ELSE IF pr = <<1, 3>> THEN y
                            ELSE z]

CInit ==
    /\ AuditIdle
    /\ DIdle
    /\ TIdle
    /\ MIdle
    /\ c_pc = "links"
    /\ GeneralInputs \/ StarInputs \/ TrioInputs
    /\ topk = <<>>
    /\ kept_links = <<>>
    /\ groups = <<>>

\* find_similar_groups, lines 137-143: fewer than two names give no group
CFindLinks ==
    /\ c_pc = "links"
    /\ IF Len(entity_names) < 2
       THEN /\ groups' = <<>>
            /\ c_pc' = "done"
            /\ UNCHANGED <<topk, kept_links>>
       ELSE /\ topk' = [k \in 1..Len(entity_names) |-> TopK(entity_names, sim_matrix, k)]
            /\ kept_links' = FindReciprocalTopkLinks(entity_names, sim_matrix)
            /\ c_pc' = "groups"
            /\ UNCHANGED groups
    /\ UNCHANGED <<entity_names, sim_matrix>>
    /\ UNCHANGED <<tech_terms, env_terms, reg_terms>>
    /\ UNCHANGED <<p1vars, gvars, rvars, dvars, tvars, mvars>>

\* find_similar_groups, line 146
CCreateGroups ==
    /\ c_pc = "groups"
    /\ groups' = CreateGroupsFromLinks(entity_names, kept_links)
    /\ c_pc' = "done"
    /\ UNCHANGED <<entity_names, sim_matrix, topk, kept_links>>
    /\ UNCHANGED <<tech_terms, env_terms, reg_terms>>
    /\ UNCHANGED <<p1vars, gvars, rvars, dvars, tvars, mvars>>

CNext == CFindLinks \/ CCreateGroups

SpecCluster == CInit /\ [][CNext]_vars

(***************************************************************************)
(* parse_date (Utils/dateparser.py): a date string to a datetime, None or  *)
(* an exception                                                            *)
(***************************************************************************)
DigitSeq == <<"0", "1", "2", "3", "4", "5", "6", "7", "8", "9">>

DigitValue(c) == (CHOOSE k \in 1..Len(DigitSeq) : DigitSeq[k] = c) - 1

\* int(s) of a string of digits
RECURSIVE IntOf(_)
IntOf(s) ==
    IF s = <<>> THEN 0
    ELSE 10 * IntOf(SubSeq(s, 1, Len(s) - 1)) + DigitValue(s[Len(s)])

\* s.endswith(suffix)
EndsWith(s, suffix) ==
    /\ Len(s) >= Len(suffix)
    /\ SubSeq(s, Len(s) - Len(suffix) + 1, Len(s)) = suffix

\* sub in s
Contains(s, sub) ==
    \E i \in 0..(Len(s) - Len(sub)) : SubSeq(s, i + 1, i + Len(sub)) = sub

\* s.rstrip()
RECURSIVE RStrip(_)
RStrip(s) ==
    IF s # <<>> /\ IsSpace(s[Len(s)]) THEN RStrip(SubSeq(s, 1, Len(s) - 1)) ELSE s

\* re.match of a pattern of \d and literal characters closed by $, the
\* pattern written with "d" for \d
MatchesShape(s, shape) ==
    /\ Len(s) = Len(shape)
    /\ \A k \in 1..Len(s) : IF shape[k] = "d" THEN IsDigit(s[k]) ELSE s[k] = shape[k]

UTCOffset == <<"+", "0", "0", ":", "0", "0">>

MidnightUTC == <<"T", "0", "0", ":", "0", "0", ":", "0", "0">> \o UTCOffset

\* line 52: ^\d{4}-\d{2}-\d{2}$
DateShape == <<"d", "d", "d", "d", "-", "d", "d", "-", "d", "d">>

\* line 57: ^\d{4}-\d{2}-\d{2}T\d{2}:\d{2}:\d{2}$
DateTimeShape == DateShape \o <<"T", "d", "d", ":", "d", "d", ":", "d", "d">>

\* line 49: re.sub(r'\s*UTC\s*$', '+00:00', s)
ReplaceTrailingUTC(s) ==
    LET t == RStrip(s)
    IN  IF EndsWith(t, <<"U", "T", "C">>)
        THEN RStrip(SubSeq(t, 1, Len(t) - 3)) \o UTCOffset
        ELSE s

\* lines 42-59: the time zone made explicit
NormalizeDate(s) ==
    IF EndsWith(s, <<"Z">>) THEN SubSeq(s, 1, Len(s) - 1) \o UTCOffset
    ELSE IF Contains(s, <<"U", "T", "C">>) THEN ReplaceTrailingUTC(s)
    ELSE IF MatchesShape(s, DateShape) THEN s \o MidnightUTC
    ELSE IF MatchesShape(s, DateTimeShape) THEN s \o UTCOffset
    ELSE s

IsLeap(y) == (y % 4 = 0 /\ y % 100 # 0) \/ y % 400 = 0

DaysInMonth(y, m) ==
    IF m = 2 THEN (IF IsLeap(y) THEN 29 ELSE 28)
    ELSE IF m \in {4, 6, 9, 11} THEN 30 ELSE 31

\* datetime(y, m, d, 0, 0, 0, tzinfo=tz.UTC): the value, or ValueError for a
\* field out of range
Datetime(y, m, d) ==
    IF y \in 1..9999 /\ m \in 1..12 /\ d \in 1..DaysInMonth(y, m)
    THEN [kind |-> "datetime", year |-> y, month |-> m, day |-> d, tzinfo |-> "UTC"]
    ELSE [kind |-> "raised", exc |-> "ValueError"]

\* dateutil.parser.parse on the strings of DateInputs after NormalizeDate:
\* an ISO date and time with offset +00:00 gives the datetime when its
\* fields are in range; a field out of range and text that is no date raise
\* ParserError, a ValueError
DateutilParse(s) ==
    IF /\ MatchesShape(s, DateTimeShape \o UTCOffset)
       /\ IntOf(SubSeq(s, 12, 13)) < 24
       /\ IntOf(SubSeq(s, 15, 16)) < 60
       /\ IntOf(SubSeq(s, 18, 19)) < 60
    THEN Datetime(IntOf(SubSeq(s, 1, 4)), IntOf(SubSeq(s, 6, 7)), IntOf(SubSeq(s, 9, 10)))
    ELSE [kind |-> "raised", exc |-> "ValueError"]

DateSeparators == {"-", "/"}

AllDigits(s, i, j) == j <= Len(s) /\ \A k \in i..j : IsDigit(s[k])

\* the end of \d{1,2} at position i of s, the longer match first
DayEnd(s, i) == IF AllDigits(s, i, i + 1) THEN i + 1 ELSE i

\* line 70: (\d{4})[-/](\d{1,2})[-/](\d{1,2}) matched at offset p, as
\* <<year, month, day>>, or <<>> for no match
DateMatchAt(s, p) ==
    IF ~(AllDigits(s, p + 1, p + 4) /\ p + 5 <= Len(s) /\ s[p + 5] \in DateSeparators)
    THEN <<>>
    ELSE IF /\ AllDigits(s, p + 6, p + 7)
            /\ p + 9 <= Len(s)
            /\ s[p + 8] \in DateSeparators
            /\ IsDigit(s[p + 9])
         THEN <<IntOf(SubSeq(s, p + 1, p + 4)), IntOf(SubSeq(s, p + 6, p + 7)),
                IntOf(SubSeq(s, p + 9, DayEnd(s, p + 9)))>>
         ELSE IF /\ AllDigits(s, p + 6, p + 6)
                 /\ p + 8 <= Len(s)
                 /\ s[p + 7] \in DateSeparators
                 /\ IsDigit(s[p + 8])
              THEN <<IntOf(SubSeq(s, p + 1, p + 4)), IntOf(SubSeq(s, p + 6, p + 6)),
                     IntOf(SubSeq(s, p + 8, DayEnd(s, p + 8)))>>
              ELSE <<>>

\* line 70: re.search, the leftmost match
DateSearch(s) ==
    LET hits == {p \in 0..Len(s) : DateMatchAt(s, p) # <<>>}
    IN  IF hits = {} THEN <<>>
        ELSE DateMatchAt(s, CHOOSE p \in hits : \A q \in hits : p <= q)

\* lines 62-75: dateutil first; on ValueError the date found by the regular
\* expression, or the ValueError raised again
ParseOrFallback(s) ==
    LET dt == DateutilParse(s)
    IN  IF dt.kind = "datetime" THEN dt
        ELSE LET date_match == DateSearch(s)
             IN  IF date_match # <<>>
                 THEN Datetime(date_match[1], date_match[2], date_match[3])
                 ELSE dt

\* lines 77-81: every exception of the body is logged and replaced by the
\* epoch
EpochOnException(outcome) ==
    IF outcome.kind = "raised" THEN Datetime(1970, 1, 1) ELSE outcome

\* parse_date(date_str)
ParseDate(arg) ==
    IF ~arg.isstr \/ arg.val = <<>> THEN [kind |-> "None"]
    ELSE IF Strip(arg.val) = <<>> THEN [kind |-> "None"]
    ELSE EpochOnException(ParseOrFallback(NormalizeDate(arg.val)))

NotADate == <<"n", "o", "t", " ", "a", " ", "d", "a", "t", "e">>

DateYears == {<<"1", "9", "9", "9">>, <<"2", "0", "2", "4">>, <<"2", "0", "2", "5">>}

DateMonths == {<<"0", "1">>, <<"0", "2">>, <<"1", "3">>}

DateDays == {<<"0", "1">>, <<"2", "9">>, <<"3", "1">>, <<"3", "2">>}

DateSuffixes ==
    {<<>>,
     <<"T", "0", "0", ":", "0", "0", ":", "0", "0">>,
     <<"T", "0", "0", ":", "0", "0", ":", "0", "0", "Z">>,
     <<"T", "0", "0", ":", "0", "0", ":", "0", "0", " ", "U", "T", "C">>,
     <<" ">> \o NotADate}

\* the arguments: None, empty and blank strings, text that is no date, and
\* ISO dates with fields in and out of range
DateInputs ==
    {NotAString}
    \cup {[isstr |-> TRUE, val |-> v] :
             v \in {<<>>, <<" ">>, <<" ", " ">>, NotADate, <<"n", "/", "a">>}}
    \cup {[isstr |-> TRUE, val |-> y \o <<"-">> \o m \o <<"-">> \o d \o x] :
             y \in DateYears, m \in DateMonths, d \in DateDays, x \in DateSuffixes}

TInit ==
    /\ AuditIdle
    /\ DIdle
    /\ CIdle
    /\ MIdle
    /\ t_pc = "call"
    /\ date_str \in DateInputs
    /\ date_result = [kind |-> "pending"]

TParseDate ==
    /\ t_pc = "call"
    /\ date_result' = ParseDate(date_str)
    /\ t_pc' = "done"
    /\ UNCHANGED date_str
    /\ UNCHANGED <<tech_terms, env_terms, reg_terms>>
    /\ UNCHANGED <<p1vars, gvars, rvars, dvars, cvars, mvars>>

TNext == TParseDate

SpecDate == TInit /\ [][TNext]_vars

(***************************************************************************)
(* EntityMerger.merge_suggestions: the entities of the Phase 2 and Phase 3 *)
(* suggestion files are merged by name, clustered by EntityNameSimilarity  *)
(* and written as groups and distinct entities                             *)
(***************************************************************************)

\* lines 50-54: the entry the defaultdict makes for a name it has not seen
NewEntry(name) ==
    [entity_name |-> name, abbreviations |-> {}, found_in_chunks |-> {},
     validation_source |-> <<>>]

\* the place of a name among the keys of the dict, 0 when it is not a key
KeyIndex(merged, name) ==
    IF \E k \in 1..Len(merged) : merged[k].entity_name = name
    THEN CHOOSE k \in 1..Len(merged) : merged[k].entity_name = name
    ELSE 0

\* lines 57-61 and 64-68: one suggestion merged into the entry of its name
MergeOne(merged, entity, source) ==
    LET name  == entity.entity_name
        at    == KeyIndex(merged, name)
        dict  == IF at = 0 THEN Append(merged, NewEntry(name)) ELSE merged
        k     == IF at = 0 THEN Len(dict) ELSE at
        old   == dict[k]
    IN  [dict EXCEPT ![k] =
            [entity_name       |-> name,
             abbreviations     |-> old.abbreviations \cup Range(entity.abbreviations),
             found_in_chunks   |-> old.found_in_chunks \cup Range(entity.found_in_chunks),
             validation_source |-> IF source \in Range(old.validation_source)
                                   THEN old.validation_source
                                   ELSE Append(old.validation_source, source)]]

\* lines 56 and 63: the loop over the suggestions of one file
RECURSIVE MergeAll(_, _, _)
MergeAll(merged, suggestions, source) ==
    IF suggestions = <<>> THEN merged
    ELSE MergeAll(MergeOne(merged, Head(suggestions), source), Tail(suggestions), source)

\* _perform_initial_merge: the dict as the list of its entries in key order
PerformInitialMerge(p2, p3) ==
    MergeAll(MergeAll(<<>>, p2, "statistical"), p3, "llm_inferred")

\* initial_merge_dict[name]
EntryOf(merged, name) == merged[KeyIndex(merged, name)]

\* the names of a group: its canonical and its members
GroupNames(group) ==
    {group.canonical} \cup {group.members[k].entity_name : k \in 1..Len(group.members)}

\* lines 95-112: one group with the abbreviations and chunks of its names
FinalGroup(merged, group) ==
    [canonical       |-> group.canonical,
     abbreviations   |-> SortedStrings(UNION {EntryOf(merged, n).abbreviations :
                                                  n \in GroupNames(group)}),
     found_in_chunks |-> SortedStrings(UNION {EntryOf(merged, n).found_in_chunks :
                                                  n \in GroupNames(group)}),
     status          |-> "pending",
     members         |-> group.members]

\* lines 92, 98, 104: grouped_entities after the loop over the groups
GroupedEntities(grps) == UNION {GroupNames(grps[k]) : k \in 1..Len(grps)}

\* sorted(entity['validation_source'])
SortedSources(sources) ==
    SelectSeq(<<"llm_inferred", "statistical">>, LAMBDA src : src \in Range(sources))

\* every entity is listed as distinct, grouped or not
KeepsEveryEntity(entity, grouped_entities) == TRUE

\* line 117: the entity is not in any group
IsDistinct(entity, grouped_entities) == entity.entity_name \notin grouped_entities

\* lines 115-124: distinct_entities
DistinctEntities(merged, grps) ==
    LET grouped_entities == GroupedEntities(grps)
        kept == SelectSeq(merged, LAMBDA e : IsDistinct(e, grouped_entities))
    IN  [k \in 1..Len(kept) |->
            [entity_name       |-> kept[k].entity_name,
             abbreviations     |-> SortedStrings(kept[k].abbreviations),
             found_in_chunks   |-> SortedStrings(kept[k].found_in_chunks),
             validation_source |-> SortedSources(kept[k].validation_source),
             status            |-> "pending"]]

MaxSuggestions == 2

MaxMergeNames == 3

\* the entries of a suggestions file: a name, with or without an
\* abbreviation and a chunk it was found in
SuggestionChoices ==
    {[entity_name |-> NameList[k], abbreviations |-> <<>>, found_in_chunks |-> <<>>] :
        k \in 1..MaxMergeNames}
    \cup
    {[entity_name |-> NameList[k], abbreviations |-> <<Lower(NameList[k])>>,
      found_in_chunks |-> << <<"c", "h">> >>] : k \in 1..MaxMergeNames}

\* the lists of at most n elements of S
ListsUpTo(S, n) == UNION {[1..k -> S] : k \in 0..n}

\* the places in NameList of the names of the two files
SuggestedIds(p2, p3) == {NameId(e.entity_name) : e \in Range(p2) \cup Range(p3)}

MInit ==
    /\ AuditIdle
    /\ DIdle
    /\ TIdle
    /\ m_pc = "merge"
    /\ p2_suggestions \in ListsUpTo(SuggestionChoices, MaxSuggestions)
    /\ p3_suggestions \in ListsUpTo(SuggestionChoices, MaxSuggestions)
    /\ initial_merge_dict = <<>>
    /\ final_groups = <<>>
    /\ distinct_entities = <<>>
    /\ c_pc = "idle"
    /\ entity_names = <<>>
    /\ sim_matrix \in [PairsOf(SuggestedIds(p2_suggestions, p3_suggestions)) -> SimValues]
    /\ topk = <<>>
    /\ kept_links = <<>>
    /\ groups = <<>>

\* lines 81-86: the initial merge and the analyzer over its entities
MInitialMerge ==
    /\ m_pc = "merge"
    /\ initial_merge_dict' = PerformInitialMerge(p2_suggestions, p3_suggestions)
    /\ entity_names' = [k \in 1..Len(initial_merge_dict') |->
                           initial_merge_dict'[k].entity_name]
    /\ c_pc' = "links"
    /\ m_pc' = "similarity"
    /\ UNCHANGED <<p2_suggestions, p3_suggestions, final_groups, distinct_entities>>
    /\ UNCHANGED <<sim_matrix, topk, kept_links, groups>>
    /\ UNCHANGED <<tech_terms, env_terms, reg_terms>>
    /\ UNCHANGED <<p1vars, gvars, rvars, dvars, tvars>>

\* lines 91-124, once find_similar_groups has returned
MAggregate ==
    /\ m_pc = "similarity"
    /\ c_pc = "done"
    /\ final_groups' = [k \in 1..Len(groups) |-> FinalGroup(initial_merge_dict, groups[k])]
    /\ distinct_entities' = DistinctEntities(initial_merge_dict, groups)
    /\ m_pc' = "done"
    /\ UNCHANGED <<p2_suggestions, p3_suggestions, initial_merge_dict>>
    /\ UNCHANGED cvars
    /\ UNCHANGED <<tech_terms, env_terms, reg_terms>>
    /\ UNCHANGED <<p1vars, gvars, rvars, dvars, tvars>>

MNext == MInitialMerge \/ CFindLinks \/ CCreateGroups \/ MAggregate

SpecMerge == MInit /\ [][MNext]_vars

(***************************************************************************)
(* The audit as a whole: a behaviour is one row through the masking        *)
(* cascade, one glued row through the coverage analysis, one run of Phase  *)
(* 2 over a corpus, one choice of a display form, one clustering of entity *)
(* names, one call of parse_date, or one merge of the suggestion files     *)
(***************************************************************************)
Init == P1Init \/ GInit \/ RInit \/ DInit \/ CInit \/ TInit \/ MInit

Next == P1Next \/ GNext \/ RunNext \/ DNext \/ CNext \/ TNext \/ MNext

Spec == Init /\ [][Next]_vars

(***************************************************************************)
(* Properties of AuditPhaseTwo.run                                         *)
(***************************************************************************)
\* C10: when the frequency protect set has no span, run does not raise, and
\* once the glued analysis is done it holds exactly one result per glued row,
\* each computed with an empty list of protect-set chunks
C10_ZeroSpansIsNoError ==
    (run_pc \notin {"start", "freq"} /\ protect_set_freq_df.rows = <<>>) =>
        /\ raised = "None"
        /\ run_pc # "raised"
        /\ run_pc \in {"rollups", "suggest", "returned"} =>
               /\ Len(glued_results_df.rows) = Len(GluedRows(phase_one_df))
               /\ \A k \in 1..Len(glued_results_df.rows) :
                      glued_results_df.rows[k] =
                          AnalyzeRow([TECH |-> tech_terms, ENV |-> env_terms, REG |-> reg_terms],
                                     <<>>, AUDIT_GLUED_COVERAGE_NO_P_HITS,
                                     GluedRows(phase_one_df)[k])

\* run has built an empty protect set for a corpus with a glued row
C10_Witness ==
    /\ run_pc = "analyze"
    /\ protect_set_freq_df.rows = <<>>
    /\ GluedRows(phase_one_df) # <<>>

(***************************************************************************)
(* The term sets are Python sets: "|".join(... for t in terms) lists them  *)
(* in an order the hash seed of the process decides                        *)
(***************************************************************************)
\* the catalogs with the same term sets as the state's, in every order
Catalogs ==
    {[TECH |-> T, ENV |-> E, REG |-> R] :
        T \in Orders(Range(tech_terms)), E \in Orders(Range(env_terms)),
        R \in Orders(Range(reg_terms))}

\* the four result fields of the finished analysis
CoverageResult ==
    [protected_hits       |-> protected_hits,
     coverage_sequence    |-> coverage_sequence,
     glued_explained      |-> glued_explained,
     coverage_fail_offset |-> coverage_fail_offset]

\* the four result fields of AnalyzeRow for the state's name under a catalog
CoverageResultOf(cat) ==
    LET r == AnalyzeRow(cat, p_chunks, AUDIT_GLUED_COVERAGE_NO_P_HITS,
                        [id |-> 0, name |-> row_name.val])
    IN  [protected_hits       |-> r.protected_hits,
         coverage_sequence    |-> r.coverage_sequence,
         glued_explained      |-> r.glued_explained,
         coverage_fail_offset |-> r.coverage_fail_offset]

\* two terms of one class match at offset i with different lengths
TwoLengthsAt(terms, s, i) ==
    \E a, b \in 1..Len(terms) :
        /\ Len(terms[a]) # Len(terms[b])
        /\ P2TermEnd(<<terms[a]>>, s, i) # -1
        /\ P2TermEnd(<<terms[b]>>, s, i) # -1

\* C12: the coverage result of a glued name is the same for every order in
\* which the elements of the TECH, ENV and REG term sets are enumerated
C12_ResultIndependentOfTermOrder ==
    g_pc = "done" => \A cat \in Catalogs : CoverageResultOf(cat) = CoverageResult

\* a finished analysis of a name where two ENV terms of different lengths
\* match at the offset the sweep starts from
C12_Witness ==
    /\ g_pc = "done"
    /\ protected_hits = <<>>
    /\ AUDIT_GLUED_COVERAGE_NO_P_HITS
    /\ TwoLengthsAt(env_terms, glued_name, 0)

\* the catalog run hands to the class regexes
RunCatalog == [TECH |-> tech_terms, ENV |-> env_terms, REG |-> reg_terms]

\* a glued row whose resource name is missing
FaultyRows(df) == SelectSeq(GluedRows(df), LAMBDA r : ~r.isstr)

\* C11: a glued row whose name is missing does not abort the glued-name
\* batch: no TypeError leaves _analyze_glued_names, and once the batch is done
\* it holds one result per glued row, the result of every row with a name
\* being the one its analysis gives
C11_RowFaultIsConfined ==
    /\ raised # "TypeError"
    /\ (run_pc \in {"rollups", "suggest", "returned"} /\ FaultyRows(phase_one_df) # <<>>) =>
           /\ Len(glued_results_df.rows) = Len(GluedRows(phase_one_df))
           /\ \A k \in 1..Len(glued_results_df.rows) :
                  GluedRows(phase_one_df)[k].isstr =>
                      glued_results_df.rows[k] =
                          AnalyzeRow(RunCatalog, ChunksOf(protect_set_freq_df),
                                     AUDIT_GLUED_COVERAGE_NO_P_HITS,
                                     GluedRows(phase_one_df)[k])

\* the batch starts with a protect set that has its chunk column, on a corpus
\* where a glued row with a name comes before a glued row without one
C11_Witness ==
    /\ run_pc = "analyze"
    /\ "chunk" \in protect_set_freq_df.columns
    /\ \E j, k \in 1..Len(GluedRows(phase_one_df)) :
           /\ j < k
           /\ GluedRows(phase_one_df)[j].isstr
           /\ ~GluedRows(phase_one_df)[k].isstr

\* the spans of a protect set
ChunkSet(df) == {r.chunk : r \in Range(df.rows)}

\* C13: whenever the frequency set or the cost set holds a span, also when
\* the other one is empty, _create_combined_protect_set writes exactly one
\* entry per span of the union, flagged with the sets the span is in, and
\* with total_cost and cost_pct_of_total 0 for a span outside the cost set
C13_CombinedIsOuterJoin ==
    ( /\ run_pc \notin {"start", "freq", "cost", "combine"}
      /\ ChunkSet(protect_set_freq_df) \cup ChunkSet(protect_set_cost_df) # {} ) =>
        /\ combined_df.written
        /\ \A chunk \in ChunkSet(protect_set_freq_df) \cup ChunkSet(protect_set_cost_df) :
               /\ Len(RowOfChunk(combined_df, chunk)) = 1
               /\ LET r == RowOfChunk(combined_df, chunk)[1]
                  IN  /\ r.in_frequency_set <=> chunk \in ChunkSet(protect_set_freq_df)
                      /\ r.in_cost_set <=> chunk \in ChunkSet(protect_set_cost_df)
                      /\ chunk \notin ChunkSet(protect_set_cost_df) =>
                             r.total_cost = 0 /\ r.cost_pct_of_total[1] = 0
        /\ \A k \in 1..Len(combined_df.rows) :
               combined_df.rows[k].chunk
                   \in ChunkSet(protect_set_freq_df) \cup ChunkSet(protect_set_cost_df)

\* the two sets reach _create_combined_protect_set with exactly one of them empty
C13_Witness ==
    /\ run_pc = "combine"
    /\ IsEmptyFrame(protect_set_freq_df) # IsEmptyFrame(protect_set_cost_df)

\* C13, for two sets that both hold a span: the combined set is their full
\* outer join on the span, with the flags and the zero cost fields
C13_OuterJoinOfTwoNonEmptySets ==
    ( /\ run_pc \notin {"start", "freq", "cost", "combine"}
      /\ protect_set_freq_df.rows # <<>>
      /\ protect_set_cost_df.rows # <<>> ) => C13_CombinedIsOuterJoin

\* the normalised spans of the delimited name of a row
SpansOfRow(r) == {Lower(NFKC(sp)) : sp \in Range(NameSpans(r.name))}

\* the spans of the delimited names of a corpus
CorpusSpans(df) == UNION {SpansOfRow(r) : r \in Range(DelimRows(df))}

\* support: the number of distinct resource ids whose delimited name holds the span
SpanSupport(df, span) ==
    Cardinality({r.id : r \in {x \in Range(DelimRows(df)) : span \in SpansOfRow(x)}})

\* the number of occurrences of the span in the delimited names
SpanCount(df, span) ==
    Len(SelectSeq(Join([k \in 1..Len(DelimRows(df)) |-> NameSpans(DelimRows(df)[k].name)]),
                  LAMBDA sp : Lower(NFKC(sp)) = span))

AllTerms == Range(tech_terms) \cup Range(env_terms) \cup Range(reg_terms)

\* the spans that qualify for the frequency-based set
Qualifying(df) ==
    {span \in CorpusSpans(df) \ AllTerms : SpanSupport(df, span) >= AUDIT_P_SET_MIN_SUPPORT}

VariantCount(v) == Len(SelectSeq(d_case_variants, LAMBDA x : x = v))

\* the variants no other variant is more frequent than
MostFrequent ==
    {v \in Range(d_case_variants) : \A w \in Range(d_case_variants) :
                                        VariantCount(w) <= VariantCount(v)}

\* v is the smallest string of the set S
SmallestOf(v, S) == v \in S /\ \A w \in S : ~StrLess(w, v)

FooExample ==
    << <<"F", "o", "o">>, <<"f", "o", "o">>, <<"f", "o", "o">>, <<"F", "O", "O">> >>

\* C15: the display form is a most frequent raw variant; among tied variants
\* it is the smallest all-lowercase one if there is one, else the smallest
\* title-case one if there is one, else the smallest tied variant; the
\* variants Foo, foo, foo, FOO give foo
C15_DisplayFormTieBreak ==
    d_pc = "done" =>
        LET lower == {v \in MostFrequent : IsLowerStr(v)}
            title == {v \in MostFrequent : IsTitleStr(v)}
        IN  /\ d_display_form.isstr
            /\ d_display_form.val \in MostFrequent
            /\ IF lower # {} THEN SmallestOf(d_display_form.val, lower)
               ELSE IF title # {} THEN SmallestOf(d_display_form.val, title)
               ELSE SmallestOf(d_display_form.val, MostFrequent)
            /\ d_case_variants = FooExample => d_display_form.val = <<"f", "o", "o">>

\* a tie without the lowercase variant, between the title-case variant and
\* two variants that sort before it
C15_Witness ==
    /\ d_pc = "done"
    /\ Cardinality(MostFrequent) = 3
    /\ <<"F", "o", "o">> \in MostFrequent
    /\ <<"F", "O", "O">> \in MostFrequent
    /\ <<"F", "O", "o">> \in MostFrequent
    /\ d_display_form = Str(<<"F", "o", "o">>)

(***************************************************************************)
(* Properties of the clusterer (SpecCluster)                               *)
(***************************************************************************)

\* the kept links as pairs of names, in both directions
LinkPairs ==
    UNION {{<<entity_names[e.a], entity_names[e.b]>>, <<entity_names[e.b], entity_names[e.a]>>} :
              e \in Range(kept_links)}

\* the transitive closure of a set of pairs
RECURSIVE Closure(_)
Closure(R) ==
    LET step == R \cup {<<x[1][1], x[2][2]>> : x \in {y \in R \X R : y[1][2] = y[2][1]}}
    IN  IF step = R THEN R ELSE Closure(step)

\* the names a kept link ends at
LinkedNames == {pr[1] : pr \in LinkPairs}

\* the connected components of two names or more of the graph of kept links
ExpectedComponents ==
    LET connected == Closure(LinkPairs)
    IN  {{x} \cup {y \in LinkedNames : <<x, y>> \in connected} : x \in LinkedNames}

\* C16: the groups are exactly the connected components of two nodes or more
\* of the graph of the kept links; a name without a kept link is in no group;
\* a name is in at most one group, as its canonical or as one member, not both
C16_GroupsAreComponents ==
    c_pc = "done" =>
        /\ LET expected == ExpectedComponents
           IN  /\ {GroupNames(groups[k]) : k \in 1..Len(groups)} = expected
               /\ Len(groups) = Cardinality(expected)
        /\ \A k \in 1..Len(groups) :
               /\ Cardinality(GroupNames(groups[k])) >= 2
               /\ Cardinality(GroupNames(groups[k])) = 1 + Len(groups[k].members)
               /\ \A m \in 1..Len(groups[k].members) :
                      groups[k].members[m].entity_name # groups[k].canonical
        /\ \A j, k \in 1..Len(groups) :
               j # k => GroupNames(groups[j]) \cap GroupNames(groups[k]) = {}
        /\ \A x \in Range(entity_names) \ LinkedNames :
               \A k \in 1..Len(groups) : x \notin GroupNames(groups[k])

\* a group with a member that has no link to its canonical
C16_Witness ==
    /\ c_pc = "done"
    /\ \E k \in 1..Len(groups) : \E m \in 1..Len(groups[k].members) :
           <<groups[k].canonical, groups[k].members[m].entity_name>> \notin LinkPairs

\* the node of a name
NodeOf(x) == CHOOSE i \in 1..Len(entity_names) : entity_names[i] = x

\* no key (degree descending, average similarity descending, normalised name
\* ascending) of a node of the group sorts before the key of the node c
RankedFirstByNormalizedName(c, g) ==
    \A x \in GroupNames(g) :
        LET d  == NodeOf(x)
            n  == Len(entity_names)
            dc == Degree(kept_links, n, c)
            dd == Degree(kept_links, n, d)
            sc == SimSum(kept_links, n, c)
            sd == SimSum(kept_links, n, d)
        IN  \/ dc > dd
            \/ dc = dd /\ sc * dd > sd * dc
            \/ /\ dc = dd
               /\ sc * dd = sd * dc
               /\ ~StrLess(Normalize(entity_names[d]), Normalize(entity_names[c]))

\* C17: the canonical of every group is the node ranked first by (degree
\* descending, average similarity of its kept edges descending, smallest
\* normalised name)
C17_CanonicalByNormalizedName ==
    c_pc = "done" =>
        \A k \in 1..Len(groups) :
            RankedFirstByNormalizedName(NodeOf(groups[k].canonical), groups[k])

\* a group of two names whose raw order and normalised order differ
C17_Witness ==
    /\ c_pc = "done"
    /\ \E k \in 1..Len(groups) :
           /\ Len(groups[k].members) = 1
           /\ StrLess(groups[k].canonical, groups[k].members[1].entity_name)
           /\ StrLess(Normalize(groups[k].members[1].entity_name),
                      Normalize(groups[k].canonical))

\* C17, with the names compared as they are given: the canonical is ranked
\* first by (degree descending, average similarity descending, raw name)
C17_CanonicalByRawName ==
    c_pc = "done" =>
        \A k \in 1..Len(groups) :
            \A x \in GroupNames(groups[k]) \ {groups[k].canonical} :
                RanksBefore(entity_names, kept_links, NodeOf(groups[k].canonical), NodeOf(x))

\* the groups without the order of the groups and of the members
GroupSet(gs) ==
    {[canonical |-> gs[k].canonical,
      members   |-> {gs[k].members[m] : m \in 1..Len(gs[k].members)}] : k \in 1..Len(gs)}

\* the names of the input in the order of NameList
ReferenceOrder == SelectSeq(NameList, LAMBDA x : \E i \in 1..Len(entity_names) : entity_names[i] = x)

\* the groups found for the same names and similarities given in the order
\* of NameList
ReferenceGroups ==
    IF Len(entity_names) < 2 THEN <<>>
    ELSE CreateGroupsFromLinks(ReferenceOrder,
                               FindReciprocalTopkLinks(ReferenceOrder, sim_matrix))

\* C18: the groups, their canonicals and the members' similarity and link
\* type are the same for every order of the same names with the same
\* pairwise similarities
C18_OutputIndependentOfInputOrder ==
    c_pc = "done" => GroupSet(groups) = GroupSet(ReferenceGroups)

\* a name with more than RECIPROCAL_TOP_K neighbours at the related level,
\* given in another order than the one of NameList
C18_Witness ==
    /\ c_pc = "done"
    /\ entity_names # ReferenceOrder
    /\ \E i \in 1..Len(entity_names) :
           Cardinality({j \in 1..Len(entity_names) :
                           /\ j # i
                           /\ SimOf(entity_names, sim_matrix, i, j) >= RELATED_THRESHOLD})
               > RECIPROCAL_TOP_K

\* C18 for names with at most RECIPROCAL_TOP_K neighbours each: the output
\* does not depend on the order of the input
C18_IndependentUpToTopK ==
    (c_pc = "done" /\ Len(entity_names) <= RECIPROCAL_TOP_K + 1)
        => GroupSet(groups) = GroupSet(ReferenceGroups)

\* the node f is at 0.5 from each of the three other nodes, which are at
\* 0.95 or more from each other
TrioAndFourth(f) ==
    /\ Len(entity_names) = 4
    /\ \A i \in (1..4) \ {f} :
           /\ SimOf(entity_names, sim_matrix, i, f) = 5000
           /\ \A j \in (1..4) \ {f, i} :
                  SimOf(entity_names, sim_matrix, i, j) >= CONFIDENCE_THRESHOLD

\* C19: three names at 0.95 or more from each other form exactly one group
\* of one canonical and two members, both with link type "duplicate"; a
\* fourth name at 0.5 from each of the three is in no group
C19_TrioFormsOneDuplicateGroup ==
    \A f \in 1..4 :
        (c_pc = "done" /\ TrioAndFourth(f)) =>
            /\ Len(groups) = 1
            /\ Len(groups[1].members) = 2
            /\ \A m \in 1..2 : groups[1].members[m].link_type = "duplicate"
            /\ GroupNames(groups[1]) = {entity_names[i] : i \in (1..4) \ {f}}
            /\ entity_names[f] \notin GroupNames(groups[1])

\* a trio with three different similarities and the fourth name given first
C19_Witness ==
    /\ c_pc = "done"
    /\ TrioAndFourth(1)
    /\ Cardinality({SimOf(entity_names, sim_matrix, 2, 3),
                    SimOf(entity_names, sim_matrix, 2, 4),
                    SimOf(entity_names, sim_matrix, 3, 4)}) = 3
    /\ Len(groups) = 1

\* a string without a digit, which holds no date
HoldsNoDate(s) == Strip(s) # <<>> /\ \A k \in 1..Len(s) : ~IsDigit(s[k])

\* C20: parse_date returns None for None and for the empty string, and
\* raises ValueError for a non-empty string that cannot be parsed as a date
C20_NoneOrValueError ==
    t_pc = "done" =>
        /\ (~date_str.isstr \/ date_str.val = <<>>) => date_result = [kind |-> "None"]
        /\ (date_str.isstr /\ HoldsNoDate(date_str.val))
               => date_result = [kind |-> "raised", exc |-> "ValueError"]

\* the call parse_date("not a date") has returned
C20_Witness ==
    /\ t_pc = "done"
    /\ date_str = [isstr |-> TRUE, val |-> NotADate]

\* C20, first half: None and the empty string give None
C20_NoneForNoneAndEmpty ==
    (t_pc = "done" /\ (~date_str.isstr \/ date_str.val = <<>>))
        => date_result = [kind |-> "None"]

\* parse_date raises nothing: every call returns None or a datetime
C20_NeverRaises == t_pc = "done" => date_result.kind \in {"None", "datetime"}

\* the occurrences of the chunks in the name: <<k, i>> for p_chunks[k] read at
\* offset i
OccurrencesInName ==
    {o \in (1..Len(p_chunks)) \X (0..Len(glued_name)) :
        /\ o[2] + Len(p_chunks[o[1]]) <= Len(glued_name)
        /\ LitAt(p_chunks[o[1]], glued_name, o[2])}

HitOf(o) == [chunk |-> p_chunks[o[1]], start |-> o[2], end |-> o[2] + Len(p_chunks[o[1]])]

IsHit(o) == \E h \in 1..Len(protected_hits) : protected_hits[h] = HitOf(o)

\* the hit h was accepted before the occurrence o came up: it is of an
\* earlier chunk, or of the same chunk further left
AcceptedBefore(h, o) ==
    \E k \in 1..Len(p_chunks) :
        /\ p_chunks[k] = h.chunk
        /\ k < o[1] \/ (k = o[1] /\ h.start < o[2])

HitsOverlap(g, h) == g.start < h.end /\ h.start < g.end

\* C21: the spans are taken longest first; an occurrence is a hit unless one
\* of its positions is covered by a hit accepted before it; the positions of
\* the hits are covered and the hits are pairwise disjoint
C21_OverlayAcceptsEveryFreeOccurrence ==
    g_pc \in {"sweep", "render", "done"} =>
        /\ \A k \in 1..(Len(p_chunks) - 1) : Len(p_chunks[k]) >= Len(p_chunks[k + 1])
        /\ \A h \in 1..Len(protected_hits) :
               \E o \in OccurrencesInName : protected_hits[h] = HitOf(o)
        /\ \A o \in OccurrencesInName :
               IsHit(o) <=>
                   ~\E h \in 1..Len(protected_hits) :
                        /\ AcceptedBefore(protected_hits[h], o)
                        /\ HitsOverlap(protected_hits[h], HitOf(o))
        /\ \A g, h \in 1..Len(protected_hits) :
               g # h => ~HitsOverlap(protected_hits[g], protected_hits[h])
        /\ \A h \in 1..Len(protected_hits) :
               \A k \in (protected_hits[h].start + 1)..protected_hits[h].end : covered[k]

\* a name with a hit, an occurrence that lies on the hit, and an occurrence
\* of the same span that lies on no hit
C21_Witness ==
    /\ g_pc = "done"
    /\ Len(protected_hits) = 1
    /\ \E o, q \in OccurrencesInName :
           /\ o[1] = q[1]
           /\ HitsOverlap(protected_hits[1], HitOf(o))
           /\ ~HitsOverlap(protected_hits[1], HitOf(q))
           /\ ~IsHit(o)
           /\ ~IsHit(q)

\* the occurrences re.finditer yields: the search goes on after the end of
\* the last one found
ScannedOccurrences ==
    {o \in OccurrencesInName :
        \E m \in 1..Len(ChunkOccurrences(p_chunks[o[1]], glued_name, 0)) :
            ChunkOccurrences(p_chunks[o[1]], glued_name, 0)[m][1] = o[2]}

\* C21 for the occurrences re.finditer yields: such an occurrence is a hit
\* iff no hit accepted before it lies on it
C21_OverlayAcceptsEveryScannedOccurrence ==
    g_pc \in {"sweep", "render", "done"} =>
        /\ \A h \in 1..Len(protected_hits) :
               \E o \in ScannedOccurrences : protected_hits[h] = HitOf(o)
        /\ \A o \in ScannedOccurrences :
               IsHit(o) <=>
                   ~\E h \in 1..Len(protected_hits) :
                        /\ AcceptedBefore(protected_hits[h], o)
                        /\ HitsOverlap(protected_hits[h], HitOf(o))

\* the segments follow each other: each starts at or after the end of the one
\* before it, and none is empty
SegmentsOrdered ==
    /\ \A k \in 1..Len(coverage_sequence) :
           coverage_sequence[k].start < coverage_sequence[k].end
    /\ \A k \in 1..(Len(coverage_sequence) - 1) :
           coverage_sequence[k].end <= coverage_sequence[k + 1].start

\* C22: the segments of coverage_sequence are ordered by strictly increasing
\* start and pairwise disjoint, and none overlaps a protect-set hit: every
\* position of the name is in at most one hit or segment
C22_SegmentsAndHitsDisjoint ==
    g_pc \in {"sweep", "render", "done"} =>
        /\ SegmentsOrdered
        /\ \A k \in 1..Len(coverage_sequence) :
               \A h \in 1..Len(protected_hits) :
                   ~HitsOverlap(coverage_sequence[k], protected_hits[h])

\* a finished name with a protect-set hit and two class segments
C22_Witness ==
    /\ g_pc = "done"
    /\ Len(protected_hits) >= 1
    /\ Len(coverage_sequence) >= 2

\* C22 without the hits: the segments are ordered by strictly increasing
\* start and pairwise disjoint
C22_SegmentsOrdered == g_pc \in {"sweep", "render", "done"} => SegmentsOrdered

\* the text of a masked string outside its placeholders, a placeholder being
\* the text from one mark to the next; inside tells whether offset i is in one
RECURSIVE RawText(_, _, _)
RawText(m, i, inside) ==
    IF i >= Len(m) THEN <<>>
    ELSE IF m[i + 1] = Perp THEN RawText(m, i + 1, ~inside)
    ELSE IF inside THEN RawText(m, i + 1, inside)
    ELSE <<m[i + 1]>> \o RawText(m, i + 1, inside)

\* the keywords of the placeholders of a masked string, in order; word is the
\* keyword read so far
RECURSIVE PlaceholderWords(_, _, _, _)
PlaceholderWords(m, i, inside, word) ==
    IF i >= Len(m) THEN <<>>
    ELSE IF m[i + 1] = Perp
         THEN IF inside THEN <<word>> \o PlaceholderWords(m, i + 1, FALSE, <<>>)
              ELSE PlaceholderWords(m, i + 1, TRUE, <<>>)
    ELSE IF inside THEN PlaceholderWords(m, i + 1, inside, Append(word, m[i + 1]))
    ELSE PlaceholderWords(m, i + 1, inside, word)

\* the characters of the name at the positions that are not covered
UncoveredText == SelectSeq([k \in 1..Len(glued_name) |-> <<k, glued_name[k]>>],
                           LAMBDA x : ~covered[x[1]])

\* C23: glued_masked_string exists only for an explained name, and no covered
\* character of the name is left in it as raw text: what it holds outside
\* its placeholders is the uncovered text of the name
C23_MaskedStringHidesCoveredText ==
    g_pc = "done" =>
        /\ glued_masked_string.isstr <=> glued_explained
        /\ glued_explained =>
               RawText(glued_masked_string.val, 0, FALSE)
                   = [k \in 1..Len(UncoveredText) |-> UncoveredText[k][2]]

\* an explained name with a protect-set hit and a class segment
C23_Witness ==
    /\ g_pc = "done"
    /\ glued_explained
    /\ glued_masked_string.isstr
    /\ Len(protected_hits) >= 1
    /\ Len(coverage_sequence) >= 1

\* C23 for the class segments: the masked string exists only for an explained
\* name, its placeholders are those of the segments in order, and when no
\* hit lies outside the segments no covered character is left as raw text
C23_SegmentsAreMasked ==
    g_pc = "done" =>
        /\ glued_masked_string.isstr <=> glued_explained
        /\ glued_explained =>
               /\ PlaceholderWords(glued_masked_string.val, 0, FALSE, <<>>)
                      = [k \in 1..Len(coverage_sequence) |-> Keyword(coverage_sequence[k].class)]
               /\ (\A h \in 1..Len(protected_hits) :
                       \E k \in 1..Len(coverage_sequence) :
                           /\ coverage_sequence[k].start <= protected_hits[h].start
                           /\ protected_hits[h].end <= coverage_sequence[k].end)
                      => RawText(glued_masked_string.val, 0, FALSE)
                             = [k \in 1..Len(UncoveredText) |-> UncoveredText[k][2]]

\* the summed cost of the rows whose delimited name holds the span, each row
\* counted once
ReferencingCost(df, span) ==
    SumSeq([k \in 1..Len(SelectSeq(DelimRows(df), LAMBDA r : span \in SpansOfRow(r))) |->
               SelectSeq(DelimRows(df), LAMBDA r : span \in SpansOfRow(r))[k].cost])

\* the summed cost is at least cost_threshold_pct of the cost of the corpus
ReachesThresholdOnce(df, span) ==
    ReferencingCost(df, span) * AUDIT_P_SET_COST_THRESHOLD_PCT_DEN
        >= AUDIT_P_SET_COST_THRESHOLD_PCT_NUM * TotalMonthlyCost(df)

\* C24: total_cost of a span of the cost-based set is the sum of the cost of
\* the distinct rows whose delimited name holds the span, and a span is in
\* the set iff that sum over the cost of the corpus reaches cost_threshold_pct
C24_CostOfReferencingRows ==
    (run_pc \notin {"start", "freq", "cost"} /\ TotalMonthlyCost(phase_one_df) > 0) =>
        /\ \A k \in 1..Len(protect_set_cost_df.rows) :
               protect_set_cost_df.rows[k].total_cost
                   = ReferencingCost(phase_one_df, protect_set_cost_df.rows[k].chunk)
        /\ \A span \in CorpusSpans(phase_one_df) \ AllTerms :
               span \in ChunkSet(protect_set_cost_df)
                   <=> ReachesThresholdOnce(phase_one_df, span)

\* the cost-based set is built from a corpus where a span occurs more than
\* once in the name of a row that has a cost
C24_Witness ==
    /\ run_pc \notin {"start", "freq", "cost"}
    /\ TotalMonthlyCost(phase_one_df) > 0
    /\ \E r \in Range(DelimRows(phase_one_df)) :
           /\ r.cost > 0
           /\ \E span \in SpansOfRow(r) \ AllTerms :
                  /\ SpanCount(phase_one_df, span) > SpanSupport(phase_one_df, span)
                  /\ span \in ChunkSet(protect_set_cost_df)

\* C24 with every occurrence counted: total_cost is the sum of the cost of
\* the row of each occurrence of the span, and a span is in the set iff that
\* sum over the cost of the corpus reaches cost_threshold_pct
C24_CostOfOccurrences ==
    (run_pc \notin {"start", "freq", "cost"} /\ TotalMonthlyCost(phase_one_df) > 0) =>
        LET occ == SpanOccurrences(phase_one_df)
            sum(span) == SumSeq([k \in 1..Len(SpanData(occ, span)) |->
                                    SpanData(occ, span)[k].row.cost])
        IN  /\ \A k \in 1..Len(protect_set_cost_df.rows) :
                   protect_set_cost_df.rows[k].total_cost
                       = sum(protect_set_cost_df.rows[k].chunk)
            /\ \A span \in CorpusSpans(phase_one_df) \ AllTerms :
                   span \in ChunkSet(protect_set_cost_df)
                       <=> sum(span) * AUDIT_P_SET_COST_THRESHOLD_PCT_DEN
                               >= AUDIT_P_SET_COST_THRESHOLD_PCT_NUM
                                      * TotalMonthlyCost(phase_one_df)

\* the nodes at RELATED_THRESHOLD or more from the node i
RelatedTo(i) ==
    {j \in 1..Len(entity_names) :
        j # i /\ SimOf(entity_names, sim_matrix, i, j) >= RELATED_THRESHOLD}

\* the nodes of the list retained for the node i
Retained(i) == IF i \in DOMAIN topk THEN {topk[i][x] : x \in 1..Len(topk[i])} ELSE {}

\* C25: the list retained for a node holds its K most similar neighbours
\* among those at related_threshold or more: it holds K of them, or all when
\* they are fewer, and no neighbour left out is strictly more similar to the
\* node than one that is kept
C25_TopKAreMostSimilar ==
    (c_pc \in {"groups", "done"} /\ Len(entity_names) >= 2) =>
        \A i \in 1..Len(entity_names) :
            /\ Retained(i) \subseteq RelatedTo(i)
            /\ Cardinality(Retained(i)) = Len(topk[i])
            /\ Len(topk[i]) = IF Cardinality(RelatedTo(i)) < RECIPROCAL_TOP_K
                              THEN Cardinality(RelatedTo(i)) ELSE RECIPROCAL_TOP_K
            /\ \A d \in RelatedTo(i) \ Retained(i) :
                   \A k \in Retained(i) :
                       SimOf(entity_names, sim_matrix, i, d)
                           <= SimOf(entity_names, sim_matrix, i, k)

\* a node with more than RECIPROCAL_TOP_K neighbours of different similarity
C25_Witness ==
    /\ c_pc = "done"
    /\ \E i \in 1..Len(entity_names) :
           /\ Cardinality(RelatedTo(i)) > RECIPROCAL_TOP_K
           /\ \E d, k \in RelatedTo(i) :
                  SimOf(entity_names, sim_matrix, i, d)
                      # SimOf(entity_names, sim_matrix, i, k)

\* C25 without the ranking: the list retained for a node holds K of its
\* neighbours at related_threshold or more, or all when they are fewer, and
\* they are the ones of lowest index
C25_TopKAreFirstByIndex ==
    (c_pc \in {"groups", "done"} /\ Len(entity_names) >= 2) =>
        \A i \in 1..Len(entity_names) :
            /\ Retained(i) \subseteq RelatedTo(i)
            /\ Len(topk[i]) = IF Cardinality(RelatedTo(i)) < RECIPROCAL_TOP_K
                              THEN Cardinality(RelatedTo(i)) ELSE RECIPROCAL_TOP_K
            /\ \A d \in RelatedTo(i) \ Retained(i) : \A k \in Retained(i) : k < d

\* the kept links that join the nodes i and j
LinksBetween(i, j) ==
    {k \in 1..Len(kept_links) : {kept_links[k].a, kept_links[k].b} = {i, j}}

\* C26: a pair (i, j) with j in the list retained for i is kept as an edge
\* iff i is in the list retained for j or the similarity reaches
\* confidence_threshold; every kept edge is such a pair and has a similarity
\* of related_threshold or more; no unordered pair has two kept edges
C26_EdgeAcceptance ==
    (c_pc \in {"groups", "done"} /\ Len(entity_names) >= 2) =>
        /\ \A i \in 1..Len(entity_names) :
               \A j \in Retained(i) :
                   LinksBetween(i, j) # {}
                       <=> \/ i \in Retained(j)
                           \/ SimOf(entity_names, sim_matrix, i, j) >= CONFIDENCE_THRESHOLD
        /\ \A k \in 1..Len(kept_links) :
               LET e == kept_links[k]
               IN  /\ e.a \in 1..Len(entity_names)
                   /\ e.b \in 1..Len(entity_names)
                   /\ e.a < e.b
                   /\ e.b \in Retained(e.a) \/ e.a \in Retained(e.b)
                   /\ e.similarity = SimOf(entity_names, sim_matrix, e.a, e.b)
                   /\ e.similarity >= RELATED_THRESHOLD
                   /\ Cardinality(LinksBetween(e.a, e.b)) = 1

\* a pair kept by its similarity alone, one node not being in the list
\* retained for the other, next to reciprocal pairs
C26_Witness ==
    /\ c_pc = "done"
    /\ \E i \in 1..Len(entity_names) :
           \E j \in Retained(i) :
               /\ i \notin Retained(j)
               /\ LinksBetween(i, j) # {}
    /\ \E i \in 1..Len(entity_names) :
           \E j \in Retained(i) :
               /\ i \in Retained(j)
               /\ SimOf(entity_names, sim_matrix, i, j) < CONFIDENCE_THRESHOLD
               /\ LinksBetween(i, j) # {}

\* the similarities of the kept links of the node m
LinkSimilarities(m) ==
    {kept_links[k].similarity : k \in {x \in 1..Len(kept_links) :
                                          m \in {kept_links[x].a, kept_links[x].b}}}

\* the similarities of the node m to the other nodes of its group
GroupSimilarities(g, m) ==
    {SimOf(entity_names, sim_matrix, m, NodeOf(x)) : x \in GroupNames(g) \ {entity_names[m]}}

MaxOf(S) == CHOOSE x \in S : \A y \in S : y <= x

GluedIds(df) == {r.id : r \in Range(GluedRows(df))}

\* the ids of the rows whose name gives its spans to the protect sets
DelimitedIds(df) == {r.id : r \in Range(DelimRows(df))}

\* C28: a name flagged is_glued holds none of the delimiters - _ . : /, so
\* no row of the corpus is both analysed as a glued name and used as a
\* delimited name for the extraction of spans
C28_GluedHasNoDelimiter ==
    /\ \A r \in Range(phase_one_df.rows) : r.is_glued => ~HasDelimiter(r.name)
    /\ GluedIds(phase_one_df) \cap DelimitedIds(phase_one_df) = {}

\* the glued analysis has written the result of a row whose name holds a
\* delimiter and has given a span to the frequency-based set
C28_Witness ==
    /\ run_pc \in {"rollups", "suggest", "returned"}
    /\ \E r \in Range(phase_one_df.rows) :
           /\ HasDelimiter(r.name)
           /\ SpansOfRow(r) \cap ChunkSet(protect_set_freq_df) # {}
           /\ \E k \in 1..Len(glued_results_df.rows) : glued_results_df.rows[k].id = r.id

\* C28 for the two delimiters is_glued tests: a name flagged is_glued holds
\* neither "-" nor "_"
C28_GluedHasNoDashOrUnderscore ==
    \A r \in Range(phase_one_df.rows) :
        r.is_glued <=> \A k \in 1..Len(r.name) : r.name[k] \notin {"-", "_"}

\* the glued coverage records run leaves for the corpus df: none when the
\* corpus is empty, when _create_combined_protect_set or
\* _analyze_glued_names raises, or when no row is glued
GluedRecordsOfRun(df) ==
    LET freq       == BuildProtectSet(df)
        cost_empty == BuildProtectSetByCost(df) = {EmptyFrame}
        glued      == GluedRows(df)
    IN  IF IsEmptyFrame(df) THEN EmptyFrame
        ELSE IF IsEmptyFrame(freq) # cost_empty THEN EmptyFrame
        ELSE IF glued = <<>> THEN EmptyFrame
        ELSE IF IsEmptyFrame(freq) THEN EmptyFrame
        ELSE IF \E r \in Range(glued) : ~r.isstr THEN EmptyFrame
        ELSE [columns |-> GluedColumns,
              rows    |-> [k \in 1..Len(glued) |->
                              AnalyzeRow(RunCatalog, ChunksOf(freq),
                                         AUDIT_GLUED_COVERAGE_NO_P_HITS, glued[k])]]

\* the corpora that differ from df in the cost of their rows only
CostVariants(df) ==
    {[df EXCEPT !.rows = [k \in 1..Len(df.rows) |-> [df.rows[k] EXCEPT !.cost = c[k]]]] :
        c \in [1..Len(df.rows) -> {0, 100}]}

\* the run is over: it has returned or an exception has left it
RunIsOver == run_pc \in {"returned", "raised"}

\* C29: the glued coverage records of a run are those of the run over every
\* corpus that differs in the cost of its rows only
C29_GluedRecordsIndependentOfCost ==
    RunIsOver =>
        \A v \in CostVariants(phase_one_df) : GluedRecordsOfRun(v) = glued_results_df

\* a run that has written glued coverage records with hits of the
\* frequency-based set, over a corpus with rows of different cost
C29_Witness ==
    /\ run_pc = "returned"
    /\ \E k \in 1..Len(glued_results_df.rows) : glued_results_df.rows[k].protected_hits # <<>>
    /\ \E q, r \in Range(phase_one_df.rows) : q.cost # r.cost

\* C29 for the runs that reach the glued analysis: the records are those of
\* the names, the catalog and the frequency-based set, whatever the costs
C29_AnalysisReadsNoCost ==
    run_pc \in {"rollups", "suggest", "returned"} =>
        \A v \in CostVariants(phase_one_df) :
            \/ IsEmptyFrame(BuildProtectSet(v)) # (BuildProtectSetByCost(v) = {EmptyFrame})
            \/ GluedRecordsOfRun(v) = glued_results_df

(***************************************************************************)
(* Properties of EntityMerger.merge_suggestions                            *)
(***************************************************************************)

\* the entity names of the two suggestion files
SuggestedNames ==
    {e.entity_name : e \in Range(p2_suggestions) \cup Range(p3_suggestions)}

\* the places of the output that hold the name: canonical of a group, member
\* of a group, entry of distinct_entities
PlacesOf(name) ==
    {<<"canonical", k, 0>> : k \in {g \in 1..Len(final_groups) :
                                        final_groups[g].canonical = name}}
    \cup {pl \in {<<"member", g, j>> : g \in 1..Len(final_groups), j \in 1..MaxMergeNames} :
             /\ pl[3] <= Len(final_groups[pl[2]].members)
             /\ final_groups[pl[2]].members[pl[3]].entity_name = name}
    \cup {<<"distinct", k, 0>> : k \in {d \in 1..Len(distinct_entities) :
                                           distinct_entities[d].entity_name = name}}

\* every name of the output
OutputNames ==
    UNION {GroupNames(final_groups[k]) : k \in 1..Len(final_groups)}
    \cup {distinct_entities[k].entity_name : k \in 1..Len(distinct_entities)}

\* C30: after merge_suggestions every distinct entity name of the merged
\* suggestions appears exactly once in the output, as the canonical of one
\* group, as a member of one group or in distinct_entities, and the output
\* holds no other name
C30_EveryNameExactlyOnce ==
    m_pc = "done" =>
        /\ \A name \in SuggestedNames : Cardinality(PlacesOf(name)) = 1
        /\ OutputNames = SuggestedNames

\* a finished merge with a group and a distinct entity, of files that share a
\* name
C30_Witness ==
    /\ m_pc = "done"
    /\ final_groups # <<>>
    /\ distinct_entities # <<>>
    /\ \E a \in Range(p2_suggestions), b \in Range(p3_suggestions) :
           a.entity_name = b.entity_name

====
